---- MODULE Spec2Model ----
(***************************************************************************)
(* Orchestration core of one tutoring session (backend/src/main.py,        *)
(* class TutorConnection): the function-call queue and its drain task, the *)
(* check_canvas handler with its lock and cooldown, the two paths by which *)
(* a canvas snapshot reaches the session, and the drawing handlers with    *)
(* the position tracking (_next_y_position, _last_x_position) and the      *)
(* vision-to-canvas coordinate transform they use.                         *)
(*                                                                         *)
(* Scheduling is asyncio: one event loop, tasks interleave only at await   *)
(* points.  Every action below is one run of a task from one await to the  *)
(* next; a send is performed at the end of the run and the task may be     *)
(* suspended on it.                                                        *)
(*                                                                         *)
(* Init is the session once websocket_endpoint has connected upstream and  *)
(* entered its receive loop; XAI_API_KEY is configured.                    *)
(***************************************************************************)
EXTENDS Integers, Sequences, FiniteSets, TLC

----------------------------------------------------------------------------
(* Bounds of the model *)

MaxCalls == 2          \* tool calls delivered by the upstream model
MaxClearCalls == 3     \* the same where a clear_canvas comes between two checks
MaxSnapshots == 2      \* canvas snapshots delivered by the client
MaxVoiceTasks == 3     \* send_voice_state tasks created and not yet run
MaxPeerSteps == 3      \* steps taken by the second session
MaxConversations == 1  \* conversation.created events sent by the upstream API
MaxAudio == 2          \* VOICE_AUDIO messages sent by the client
MaxDeltas == 2         \* argument deltas streamed for one function call
MaxTime == 20          \* last clock value explored
TickStep == 5          \* seconds between two clock readings

(* Program constants *)

check_canvas_cooldown == 10

(* time.time() when the session starts: the epoch clock is more than one   *)
(* cooldown past the initial _last_check_canvas_time of 0.0.               *)
StartTime == check_canvas_cooldown

CallIds == 1..MaxCalls
TaskIds == 1..MaxCalls

KnownTools ==
    {"draw_on_canvas", "draw_shape", "point_to", "clear_canvas",
     "celebrate", "check_canvas", "circle_answer"}

(* Tool names the upstream model sends in the sequencer specification. *)
SeqTools == {"check_canvas", "celebrate", "no_such_tool"}

(* A text is identified by what it was derived from: the screenshot a      *)
(* vision analysis read, or the shape list a fallback description counted. *)
NoText == [src |-> "none", snap |-> 0]
VisionText(s) == [src |-> "vision", snap |-> s]
FallbackText(s) == [src |-> "fallback", snap |-> s]

(* An optional argument (dict.get with a default) is the empty set or the  *)
(* singleton of its value.                                                 *)
get(arg, default) == IF arg = {} THEN default ELSE CHOOSE v \in arg : TRUE

(* The args dict of a function call.  "ill" names the keys whose value is   *)
(* not of the type the handler converts it to (a word where float() is     *)
(* applied, an intensity that is neither "small" nor "big").               *)
Args(items, shape_type, x, y, width, height) ==
    [items |-> items, shape_type |-> shape_type, x |-> x, y |-> y,
     width |-> width, height |-> height, color |-> {}, intensity |-> {},
     ill |-> {}]
NoArgs == Args(<<>>, {}, {}, {}, {}, {})
IllTyped(keys) == [NoArgs EXCEPT !.ill = keys]

(* float(value), or a pydantic Literal validation, raises on such a key. *)
conversion_raises(args, keys) == args.ill \cap keys # {}

(* One entry of draw_on_canvas "items". *)
Item(has_text, x, y, size) == [text |-> has_text, x |-> x, y |-> y, size |-> size]

(* A TldrawShapeData of a snapshot: type, y, props.size and props.h. *)
Shape(type, y, size, h) == [type |-> type, y |-> y, size |-> size, h |-> h]

(* ScreenshotBounds, or None. *)
NoBounds == [known |-> FALSE, x |-> 0, y |-> 0, padding |-> 0]
Bounds(x, y, padding) == [known |-> TRUE, x |-> x, y |-> y, padding |-> padding]

Max(a, b) == IF a >= b THEN a ELSE b

VARIABLES
    function_queue,            \* asyncio.Queue of (call_id, name)
    function_processor_task,   \* 0 = None, else the task last created
    task,                      \* the _process_function_queue tasks created
    next_call,                 \* number of function calls delivered so far
    vision_in_progress,
    last_check_canvas_time,
    last_check_canvas_result,
    latest_screenshot,         \* 0 = None, else number of the snapshot
    latest_shapes,             \* 0 = [], else number of the snapshot
    screenshot_source,
    snapshots,                 \* number of snapshots received so far
    now,                       \* time.time()
    vision_in_flight,          \* analyze_canvas_screenshot calls not yet returned
    endpoint,                  \* websocket_endpoint: serving, cleanup, closed
    grok_connected,            \* GrokVoiceClient.is_connected
    dispatched,                \* history: requests in the order dequeued
    results,                   \* history: function results sent upstream
    outcomes,                  \* history: outcome of each check_canvas
    raised,                    \* history: calls whose handler raised
    next_y_position,
    last_x_position,
    screenshot_bounds,
    shape_list,                \* the shapes held by _latest_shapes
    canvas_commands,           \* history: canvas commands sent downstream
    voice_state_sent,          \* state of the last VOICE_STATE sent downstream
    voice_tasks,               \* send_voice_state tasks created, not yet run
    peer,                      \* a second session: its connection's attributes
    attention,                 \* the attention marker and its clear_after_delay tasks
    grok_client                \* the GrokVoiceClient and what it has exchanged

vars ==
    <<function_queue, function_processor_task, task, next_call,
      vision_in_progress, last_check_canvas_time, last_check_canvas_result,
      latest_screenshot, latest_shapes, screenshot_source, snapshots, now,
      vision_in_flight, endpoint, grok_connected,
      dispatched, results, outcomes, raised,
      next_y_position, last_x_position, screenshot_bounds, shape_list,
      canvas_commands, voice_state_sent, voice_tasks, peer,
      attention, grok_client>>

analysis_vars ==
    <<vision_in_progress, last_check_canvas_time, last_check_canvas_result>>
snapshot_vars == <<latest_screenshot, latest_shapes, screenshot_source, snapshots>>
conn_vars == <<endpoint, grok_connected>>
cursor_vars == <<next_y_position, last_x_position, canvas_commands>>
bounds_vars == <<screenshot_bounds, shape_list>>
voice_vars == <<voice_state_sent, voice_tasks>>
client_vars == <<attention, grok_client>>

----------------------------------------------------------------------------
(* Task records *)

Unborn ==
    [pc |-> "unborn", call_id |-> 0, is_last |-> FALSE, screenshot |-> 0,
     items |-> <<>>, max_y_used |-> 0]
AtLoop ==
    [pc |-> "loop", call_id |-> 0, is_last |-> FALSE, screenshot |-> 0,
     items |-> <<>>, max_y_used |-> 0]
Done ==
    [pc |-> "done", call_id |-> 0, is_last |-> FALSE, screenshot |-> 0,
     items |-> <<>>, max_y_used |-> 0]

Active(t) == task[t].pc \notin {"unborn", "done"}
ActiveTasks == {t \in DOMAIN task : Active(t)}
BornTasks == {t \in DOMAIN task : task[t].pc # "unborn"}

(* TutorConnection.__init__: the attributes of a new connection that the   *)
(* second session's operations read or assign.                             *)
NewConnection ==
    [next_y_position |-> 100, last_x_position |-> 100, function_queue |-> <<>>,
     vision_in_progress |-> FALSE, last_check_canvas_time |-> 0,
     last_check_canvas_result |-> NoText]

(* GrokVoiceClient.__init__, with what the client will have exchanged with *)
(* the upstream API: the events handled, the messages sent, the function   *)
(* calls being streamed to it and those it has delivered.                  *)
NewClient ==
    [ws |-> FALSE, session_configured |-> FALSE, receive_loop |-> "none",
     conversations |-> 0, session_updates |-> 0, sent |-> <<>>,
     current_function_call |-> {}, function_call_args |-> <<>>,
     delivered |-> <<>>,
     calls |-> [c \in CallIds |-> [announced |-> FALSE, deltas |-> 0,
                                   done |-> FALSE]]]

(* _send_initial_greeting: the three messages, in the order sent. *)
Greeting ==
    <<"input_audio_buffer.commit", "conversation.item.create", "response.create">>

(* The client when connect_to_grok has returned: connected, configured by  *)
(* one conversation.created and one session.updated, the greeting sent.    *)
ReadyClient ==
    [NewClient EXCEPT !.ws = TRUE, !.session_configured = TRUE,
                      !.receive_loop = "waiting",
                      !.conversations = 1, !.session_updates = 1,
                      !.sent = <<"session.update">> \o Greeting]

(* The downstream websocket accepts a send only while the endpoint serves. *)
ws_open == endpoint = "serving"

(* The attributes of a new connection and the histories of the model, with *)
(* room for max_calls drain tasks.                                         *)
SessionInit(max_calls) ==
    /\ function_queue = <<>>
    /\ function_processor_task = 0
    /\ task = [t \in 1..max_calls |-> Unborn]
    /\ next_call = 0
    /\ vision_in_progress = FALSE
    /\ last_check_canvas_time = 0
    /\ last_check_canvas_result = NoText
    /\ latest_screenshot = 0
    /\ latest_shapes = 0
    /\ screenshot_source = "none"
    /\ snapshots = 0
    /\ now = StartTime
    /\ vision_in_flight = 0
    /\ dispatched = <<>>
    /\ results = <<>>
    /\ outcomes = <<>>
    /\ raised = {}
    /\ next_y_position = 100
    /\ last_x_position = 100
    /\ screenshot_bounds = NoBounds
    /\ shape_list = <<>>
    /\ canvas_commands = <<>>
    /\ voice_state_sent = "none"
    /\ voice_tasks = <<>>
    /\ peer = [steps |-> 0, next_call |-> 0, attributes |-> NewConnection]
    /\ attention = [shown_at |-> 0, sleeping |-> <<>>]

(* The session when connect_to_grok has returned and SESSION_READY is sent. *)
InitOf(max_calls) ==
    /\ SessionInit(max_calls)
    /\ endpoint = "serving"
    /\ grok_connected = TRUE
    /\ grok_client = ReadyClient

Init == InitOf(MaxCalls)

(* The session when the endpoint has accepted the websocket and built the *)
(* connection, before connect_to_grok.                                     *)
ConnectInit ==
    /\ SessionInit(MaxCalls)
    /\ endpoint = "accepted"
    /\ grok_connected = FALSE
    /\ grok_client = NewClient

----------------------------------------------------------------------------
(* Collaborators *)

send_function_result_always_requests(t, call_id, request_response) ==
    IF grok_connected
    THEN Append(results, [call_id |-> call_id, request_response |-> TRUE,
                          task |-> t, next_y |-> {}])
    ELSE results

(* GrokVoiceClient.send_function_result behind the callers' guard          *)
(* "if self.grok_client and self.grok_client.is_connected": the            *)
(* function_call_output item, and response.create when request_response.   *)
send_function_result(t, call_id, request_response) ==
    IF grok_connected
    THEN Append(results, [call_id |-> call_id,
                          request_response |-> request_response,
                          task |-> t, next_y |-> {}])
    ELSE results

(* The text a stale-free answer would carry at this instant. *)
Current(text) ==
    CASE text.src = "vision" -> latest_screenshot
      [] text.src = "fallback" -> latest_shapes
      [] OTHER -> 0

Outcome(call_id, kind, text) ==
    [call_id |-> call_id, kind |-> kind, text |-> text,
     current |-> Current(text), source |-> screenshot_source]

----------------------------------------------------------------------------
(* Tool-call sequencer *)

processor_idle_always == TRUE

processor_idle_never_done == function_processor_task = 0

(* "self._function_processor_task is None or ....done()" *)
processor_idle ==
    \/ function_processor_task = 0
    \/ task[function_processor_task].pc = "done"

NewTask == Cardinality(BornTasks) + 1

(* The body of _on_function_call: the call is put on the queue and the     *)
(* drain task is started if none is running; at most max_calls calls are   *)
(* delivered.  The upstream client is left to the caller.                  *)
function_queue_put(max_calls, name, args) ==
    /\ grok_connected
    /\ next_call < max_calls
    /\ next_call' = next_call + 1
    /\ function_queue' =
           Append(function_queue,
                  [call_id |-> next_call + 1, name |-> name, args |-> args])
    /\ IF processor_idle
       THEN /\ function_processor_task' = NewTask
            /\ task' = [task EXCEPT ![NewTask] = AtLoop]
       ELSE UNCHANGED <<function_processor_task, task>>
    /\ UNCHANGED <<analysis_vars, snapshot_vars, now, vision_in_flight,
                   conn_vars, dispatched, results, outcomes, raised,
                   cursor_vars, bounds_vars>>
    /\ UNCHANGED <<voice_vars, peer, attention>>

(* _on_function_call: synchronous, runs inside the upstream receive loop. *)
on_function_call_of(max_calls, name, args) ==
    /\ function_queue_put(max_calls, name, args)
    /\ UNCHANGED grok_client

on_function_call(name, args) == on_function_call_of(MaxCalls, name, args)

queue_get_newest(q) == Len(q)

(* asyncio.Queue.get on a non-empty queue: the index of the item returned. *)
queue_get(q) == 1

Remove(q, i) == [j \in 1..(Len(q) - 1) |-> IF j < i THEN q[j] ELSE q[j + 1]]

except_Exception_escapes == Done

(* "except Exception as e: print(...)": the loop goes on to its next test. *)
except_Exception == AtLoop

Raise(t, call_id) ==
    /\ task' = [task EXCEPT ![t] = except_Exception]
    /\ raised' = raised \cup {call_id}

InHandler(t, pc, call_id, is_last, screenshot) ==
    task' = [task EXCEPT ![t] = [pc |-> pc, call_id |-> call_id,
                                 is_last |-> is_last, screenshot |-> screenshot,
                                 items |-> <<>>, max_y_used |-> 0]]

(* Suspended inside the "for item in items" loop of _handle_draw_on_canvas *)
(* with the items still to draw and the local max_y_used.                  *)
InDrawLoop(t, call_id, is_last, items, max_y_used) ==
    task' = [task EXCEPT ![t] = [pc |-> "draw_item_sent", call_id |-> call_id,
                                 is_last |-> is_last, screenshot |-> 0,
                                 items |-> items, max_y_used |-> max_y_used]]

Return(t) == task' = [task EXCEPT ![t] = AtLoop]

----------------------------------------------------------------------------
(* Messages for the client *)

(* A canvas command as the client receives it: the placed element, with    *)
(* the call it belongs to and the x and y arguments as they were given.    *)
Command(kind, call_id, x, y, w, h, given_x, given_y) ==
    [kind |-> kind, call_id |-> call_id, x |-> x, y |-> y, w |-> w, h |-> h,
     given_x |-> given_x, given_y |-> given_y, style |-> ""]

(* The same with its colour, geo type or intensity. *)
Styled(command, style) == [command EXCEPT !.style = style]

----------------------------------------------------------------------------
(* _handle_celebrate *)

(* Up to "await self.send_celebrate(intensity)": CelebrateMessage accepts   *)
(* "small" and "big" only.                                                 *)
handle_celebrate(t, call_id, args, is_last) ==
    /\ IF ws_open /\ ~conversion_raises(args, {"intensity"})
       THEN /\ InHandler(t, "celebrate_sent", call_id, is_last, 0)
            /\ raised' = raised
            /\ canvas_commands' = Append(canvas_commands,
                   Styled(Command("celebrate", call_id, 0, 0, 0, 0, {}, {}),
                          get(args.intensity, "big")))
       ELSE /\ Raise(t, call_id)
            /\ canvas_commands' = canvas_commands
    /\ UNCHANGED <<next_y_position, last_x_position>>
    /\ UNCHANGED <<analysis_vars, vision_in_flight, results, outcomes>>

handle_celebrate_result(t) ==
    /\ task[t].pc = "celebrate_sent"
    /\ results' = send_function_result(t, task[t].call_id, task[t].is_last)
    /\ Return(t)
    /\ UNCHANGED <<cursor_vars, bounds_vars>>
    /\ UNCHANGED <<function_queue, function_processor_task, next_call,
                   analysis_vars, snapshot_vars, now, vision_in_flight,
                   conn_vars, dispatched, outcomes, raised>>
    /\ UNCHANGED <<voice_vars, peer, client_vars>>

----------------------------------------------------------------------------
(* _handle_check_canvas *)

fallback_description_none == NoText

(* The degraded description built from self._latest_shapes. *)
fallback_description == FallbackText(latest_shapes)

check_busy_ignored == FALSE

(* "if self._vision_in_progress:" *)
check_busy == vision_in_progress

check_cached_ignores_result ==
    now - last_check_canvas_time < check_canvas_cooldown

check_cached_inclusive ==
    /\ now - last_check_canvas_time <= check_canvas_cooldown
    /\ last_check_canvas_result # NoText

(* "if time_since_last < self._check_canvas_cooldown and                   *)
(*      self._last_check_canvas_result:"                                   *)
check_cached ==
    /\ now - last_check_canvas_time < check_canvas_cooldown
    /\ last_check_canvas_result # NoText

(* From the handler's entry to its first await. *)
handle_check_canvas(t, call_id, is_last) ==
    IF check_busy
    THEN /\ outcomes' = Append(outcomes, Outcome(call_id, "Busy", NoText))
         /\ results' = send_function_result(t, call_id, is_last)
         /\ Return(t)
         /\ UNCHANGED <<analysis_vars, vision_in_flight, raised>>
    ELSE IF check_cached
    THEN /\ outcomes' = Append(outcomes,
                               Outcome(call_id, "Cached", last_check_canvas_result))
         /\ results' = send_function_result(t, call_id, is_last)
         /\ Return(t)
         /\ UNCHANGED <<analysis_vars, vision_in_flight, raised>>
    ELSE /\ last_check_canvas_time' = now
         /\ vision_in_progress' = TRUE
         /\ IF ws_open     \* await self.send_clear_check_context()
            THEN InHandler(t, "check_cleared", call_id, is_last, 0) /\ raised' = raised
            ELSE Raise(t, call_id)
         /\ UNCHANGED <<last_check_canvas_result, vision_in_flight, results, outcomes>>

(* The handler's tail once vision_result is known: the finally clause, the *)
(* cache update and the function result.                                   *)
check_finish(t, vision_result) ==
    /\ vision_in_progress' = FALSE
    /\ last_check_canvas_result' = vision_result
    /\ outcomes' = Append(outcomes, Outcome(task[t].call_id, "Fresh", vision_result))
    /\ results' = send_function_result(t, task[t].call_id, task[t].is_last)
    /\ Return(t)
    /\ UNCHANGED <<last_check_canvas_time, raised>>

(* After send_clear_check_context: the try block up to its first await. *)
handle_check_canvas_try(t) ==
    /\ task[t].pc = "check_cleared"
    /\ IF latest_screenshot # 0
       THEN IF ws_open     \* await self.send_tutor_status("thinking")
            THEN /\ InHandler(t, "check_status_sent", task[t].call_id, task[t].is_last, 0)
                 /\ UNCHANGED <<analysis_vars, results, outcomes, raised>>
            ELSE /\ vision_in_progress' = FALSE       \* finally
                 /\ Raise(t, task[t].call_id)
                 /\ UNCHANGED <<last_check_canvas_time, last_check_canvas_result,
                                results, outcomes>>
       ELSE check_finish(t, fallback_description)
    /\ UNCHANGED <<cursor_vars, bounds_vars>>
    /\ UNCHANGED <<function_queue, function_processor_task, next_call,
                   snapshot_vars, now, vision_in_flight, conn_vars, dispatched>>
    /\ UNCHANGED <<voice_vars, peer, client_vars>>

(* The analysis started without being awaited: the handler goes on with no *)
(* vision result while the call is still running.                          *)
handle_check_canvas_call_vision_not_awaited(t) ==
    /\ task[t].pc = "check_status_sent"
    /\ vision_in_flight' = vision_in_flight + 1
    /\ check_finish(t, fallback_description)
    /\ UNCHANGED <<cursor_vars, bounds_vars>>
    /\ UNCHANGED <<function_queue, function_processor_task, next_call,
                   snapshot_vars, now, conn_vars, dispatched>>
    /\ UNCHANGED <<voice_vars, peer, client_vars>>

(* "vision_result = await analyze_canvas_screenshot(KEY, self._latest_screenshot)" *)
handle_check_canvas_call_vision(t) ==
    /\ task[t].pc = "check_status_sent"
    /\ vision_in_flight' = vision_in_flight + 1
    /\ InHandler(t, "check_vision", task[t].call_id, task[t].is_last, latest_screenshot)
    /\ UNCHANGED <<cursor_vars, bounds_vars>>
    /\ UNCHANGED <<function_queue, function_processor_task, next_call,
                   analysis_vars, snapshot_vars, now, conn_vars,
                   dispatched, results, outcomes, raised>>
    /\ UNCHANGED <<voice_vars, peer, client_vars>>

(* analyze_canvas_screenshot returns its content, or None on a non-200     *)
(* status, an empty answer, a timeout, a connection error or any exception.*)
handle_check_canvas_vision_done(t, ok) ==
    /\ task[t].pc = "check_vision"
    /\ vision_in_flight' = vision_in_flight - 1
    /\ check_finish(t, IF ok THEN VisionText(task[t].screenshot)
                             ELSE fallback_description)
    /\ UNCHANGED <<cursor_vars, bounds_vars>>
    /\ UNCHANGED <<function_queue, function_processor_task, next_call,
                   snapshot_vars, now, conn_vars, dispatched>>
    /\ UNCHANGED <<voice_vars, peer, client_vars>>

----------------------------------------------------------------------------
(* Drawing handlers *)

(* await self.send_canvas_command(command): raises once the client is gone. *)
send_canvas_command(t, call_id, is_last, command) ==
    IF ws_open
    THEN /\ canvas_commands' = Append(canvas_commands, command)
         /\ InHandler(t, "command_sent", call_id, is_last, 0)
         /\ raised' = raised
    ELSE /\ canvas_commands' = canvas_commands
         /\ Raise(t, call_id)

(* '{"s": 30, "m": 50, "l": 70}.get(size, 50)' *)
line_height(size) ==
    CASE size = "s" -> 30
      [] size = "m" -> 50
      [] size = "l" -> 70
      [] OTHER -> 50

(* 'if not text: continue' has no effect: the items that are drawn. *)
with_text(items) == SelectSeq(items, LAMBDA item : item.text)

(* _handle_draw_on_canvas: one pass of "for item in items" up to its await *)
(* of send_canvas_command, or, the items exhausted, the assignment of      *)
(* _next_y_position up to the await of send_tutor_status.                  *)
draw_on_canvas_loop(t, call_id, is_last, items, max_y_used) ==
    IF items # <<>>
    THEN LET item == Head(items)
             x == get(item.x, last_x_position)
             y == get(item.y, next_y_position)
             lh == line_height(item.size)
         IN  /\ last_x_position' = x
             /\ next_y_position' = next_y_position
             /\ IF ws_open
                THEN /\ canvas_commands' = Append(canvas_commands,
                            Command("text", call_id, x, y, 0, lh, item.x, item.y))
                     /\ InDrawLoop(t, call_id, is_last, Tail(items),
                                   IF y >= max_y_used THEN y + lh ELSE max_y_used)
                     /\ raised' = raised
                ELSE /\ canvas_commands' = canvas_commands
                     /\ Raise(t, call_id)
    ELSE /\ next_y_position' = max_y_used
         /\ UNCHANGED <<last_x_position, canvas_commands>>
         /\ IF ws_open     \* await self.send_tutor_status("drawing")
            THEN InHandler(t, "status_sent", call_id, is_last, 0) /\ raised' = raised
            ELSE Raise(t, call_id)

(* From the handler's entry: "max_y_used = self._next_y_position". *)
handle_draw_on_canvas(t, call_id, args, is_last) ==
    /\ draw_on_canvas_loop(t, call_id, is_last, with_text(args.items),
                           next_y_position)
    /\ UNCHANGED <<analysis_vars, vision_in_flight, results, outcomes>>

(* The handler resumes after the send of one item's command. *)
handle_draw_on_canvas_next(t) ==
    /\ task[t].pc = "draw_item_sent"
    /\ draw_on_canvas_loop(t, task[t].call_id, task[t].is_last, task[t].items,
                           task[t].max_y_used)
    /\ UNCHANGED bounds_vars
    /\ UNCHANGED <<function_queue, function_processor_task, next_call,
                   analysis_vars, snapshot_vars, now, vision_in_flight,
                   conn_vars, dispatched, results, outcomes>>
    /\ UNCHANGED <<voice_vars, peer, client_vars>>

(* 'geo_map.get(shape_type, "rectangle")', and "line" for a line shape. *)
geo_type(shape_type) ==
    CASE shape_type = "circle" -> "ellipse"
      [] shape_type \in {"ellipse", "triangle", "line"} -> shape_type
      [] OTHER -> "rectangle"

draw_shape_default_x_verbatim == last_x_position

(* 'args.get("x", self._last_x_position + 150)' *)
draw_shape_default_x == last_x_position + 150

(* _handle_draw_shape up to its await of send_canvas_command. *)
handle_draw_shape(t, call_id, args, is_last) ==
    LET shape_type == get(args.shape_type, "rectangle")
        x == get(args.x, draw_shape_default_x)
        y == get(args.y, next_y_position)
        width == get(args.width, 100)
        height == get(args.height, 100)
        h == CASE shape_type = "line" -> 0
               [] shape_type = "circle" -> width
               [] OTHER -> height
    IN  /\ IF conversion_raises(args, {"x", "y", "width", "height"})
           THEN /\ Raise(t, call_id)
                /\ UNCHANGED <<next_y_position, last_x_position, canvas_commands>>
           ELSE /\ last_x_position' = x
                /\ next_y_position' = IF y + height > next_y_position
                                      THEN y + height + 20
                                      ELSE next_y_position
                /\ send_canvas_command(t, call_id, is_last,
                       Styled(Command("shape", call_id, x, y, width, h,
                                      args.x, args.y),
                              geo_type(shape_type)))
        /\ UNCHANGED <<analysis_vars, vision_in_flight, results, outcomes>>

(* _handle_clear_canvas up to its await of send_canvas_command. *)
handle_clear_canvas(t, call_id, is_last) ==
    /\ IF ws_open
       THEN /\ canvas_commands' = Append(canvas_commands,
                   Command("clear", call_id, 0, 0, 0, 0, {}, {}))
            /\ InHandler(t, "clear_sent", call_id, is_last, 0)
            /\ raised' = raised
       ELSE /\ canvas_commands' = canvas_commands
            /\ Raise(t, call_id)
    /\ UNCHANGED <<next_y_position, last_x_position>>
    /\ UNCHANGED <<analysis_vars, vision_in_flight, results, outcomes>>

reset_next_y_kept == next_y_position

(* 'self._next_y_position = 100.0' *)
reset_next_y == 100

cached_result_after_clear_dropped == NoText

(* 'self.session.update_canvas([], "Canvas cleared", None)' assigns the    *)
(* canvas attributes of the Session object; the connection's cached        *)
(* analysis is what it was.                                                *)
cached_result_after_clear == last_check_canvas_result

(* "Reset position tracking for fresh canvas", up to the await of          *)
(* send_tutor_status.                                                      *)
handle_clear_canvas_reset(t) ==
    /\ task[t].pc = "clear_sent"
    /\ next_y_position' = reset_next_y
    /\ last_x_position' = 100
    /\ last_check_canvas_result' = cached_result_after_clear
    /\ IF ws_open
       THEN InHandler(t, "status_sent", task[t].call_id, task[t].is_last, 0)
            /\ raised' = raised
       ELSE Raise(t, task[t].call_id)
    /\ UNCHANGED <<canvas_commands, bounds_vars>>
    /\ UNCHANGED <<function_queue, function_processor_task, next_call,
                   vision_in_progress, last_check_canvas_time,
                   snapshot_vars, now, vision_in_flight,
                   conn_vars, dispatched, results, outcomes>>
    /\ UNCHANGED <<voice_vars, peer, client_vars>>

(* _handle_point_to up to its await of send_canvas_command: the attention  *)
(* marker is shown at this instant.                                        *)
handle_point_to(t, call_id, args, is_last) ==
    /\ IF ws_open /\ ~conversion_raises(args, {"x", "y"})
       THEN /\ canvas_commands' = Append(canvas_commands,
                   Command("attention", call_id, get(args.x, 400),
                           get(args.y, 300), 0, 0, args.x, args.y))
            /\ attention' = [attention EXCEPT !.shown_at = now]
            /\ InHandler(t, "status_sent", call_id, is_last, 0)
            /\ raised' = raised
       ELSE /\ canvas_commands' = canvas_commands
            /\ attention' = attention
            /\ Raise(t, call_id)
    /\ UNCHANGED <<next_y_position, last_x_position>>
    /\ UNCHANGED <<analysis_vars, vision_in_flight, results, outcomes>>

vision_to_canvas_unshifted(vision_x, vision_y, width, bounds) ==
    IF bounds.known
    THEN <<vision_x + bounds.x - bounds.padding,
           vision_y + bounds.y - bounds.padding>>
    ELSE <<vision_x - 50, vision_y - 30>>

(* "Transform vision coordinates to canvas coordinates": (canvas_x,        *)
(* canvas_y).  Coordinates are integers and widths even, so that           *)
(* width * 0.5 is the exact quotient.                                      *)
vision_to_canvas(vision_x, vision_y, width, bounds) ==
    IF bounds.known
    THEN <<(vision_x + bounds.x - bounds.padding) - (width \div 2),
           vision_y + bounds.y - bounds.padding>>
    ELSE <<vision_x - 50, vision_y - 30>>

(* _handle_circle_answer up to its await of send_canvas_command; widths    *)
(* are multiples of ten, so that width * 1.2 is exact.                     *)
handle_circle_answer(t, call_id, args, is_last) ==
    LET vision_x == get(args.x, 100)
        vision_y == get(args.y, 100)
        width == get(args.width, 100)
        height == get(args.height, 50)
        canvas == vision_to_canvas(vision_x, vision_y, width, screenshot_bounds)
        ellipse_x == canvas[1] - 30
        ellipse_y == canvas[2] - 20
        ellipse_width == (width * 12) \div 10 + 30 * 2
        ellipse_height == height + 20 * 2
    IN  /\ IF conversion_raises(args, {"x", "y", "width", "height"})
           THEN /\ Raise(t, call_id)
                /\ canvas_commands' = canvas_commands
           ELSE send_canvas_command(t, call_id, is_last,
                    Styled(Command("ellipse", call_id, ellipse_x, ellipse_y,
                                   ellipse_width, ellipse_height, args.x, args.y),
                           get(args.color, "light-green")))
        /\ UNCHANGED <<next_y_position, last_x_position>>
        /\ UNCHANGED <<analysis_vars, vision_in_flight, results, outcomes>>

(* After send_canvas_command: await self.send_tutor_status("drawing"). *)
send_tutor_status_drawing(t) ==
    /\ task[t].pc = "command_sent"
    /\ IF ws_open
       THEN InHandler(t, "status_sent", task[t].call_id, task[t].is_last, 0)
            /\ raised' = raised
       ELSE Raise(t, task[t].call_id)
    /\ UNCHANGED <<cursor_vars, bounds_vars>>
    /\ UNCHANGED <<function_queue, function_processor_task, next_call,
                   analysis_vars, snapshot_vars, now, vision_in_flight,
                   conn_vars, dispatched, results, outcomes>>
    /\ UNCHANGED <<voice_vars, peer, client_vars>>

(* The request dequeued with this call id. *)
RequestOf(call_id) ==
    dispatched[CHOOSE k \in 1..Len(dispatched) : dispatched[k].call_id = call_id]

result_next_y_of_last_x == last_x_position

(* 'int(self._next_y_position)', evaluated when the result is built. *)
result_next_y == next_y_position

(* The result with the text of the handler: "Next available y position"   *)
(* is part of it for draw_on_canvas and draw_shape.                        *)
drawing_result(t, call_id, is_last) ==
    LET sent == send_function_result(t, call_id, is_last)
    IN  IF /\ sent # results
           /\ RequestOf(call_id).name \in {"draw_on_canvas", "draw_shape"}
        THEN [sent EXCEPT ![Len(sent)].next_y = {result_next_y}]
        ELSE sent

(* "Auto-clear attention after 3 seconds": 'await asyncio.sleep(3)' *)
clear_delay == 3

(* 'asyncio.create_task(clear_after_delay())' in _handle_point_to: the     *)
(* task sleeps until clear_delay seconds from now.                         *)
create_clear_after_delay(call_id) ==
    IF RequestOf(call_id).name = "point_to"
    THEN [attention EXCEPT !.sleeping = Append(@, now + clear_delay)]
    ELSE attention

(* "Send function result back to Grok", and the handler returns; point_to  *)
(* first creates the task that clears its marker.                          *)
send_drawing_result(t) ==
    /\ task[t].pc = "status_sent"
    /\ attention' = create_clear_after_delay(task[t].call_id)
    /\ results' = drawing_result(t, task[t].call_id, task[t].is_last)
    /\ Return(t)
    /\ UNCHANGED <<cursor_vars, bounds_vars>>
    /\ UNCHANGED <<function_queue, function_processor_task, next_call,
                   analysis_vars, snapshot_vars, now, vision_in_flight,
                   conn_vars, dispatched, outcomes, raised>>
    /\ UNCHANGED <<voice_vars, peer, grok_client>>

(* clear_after_delay once its sleep is over: the task sends                *)
(* ClearAttentionCommand and ends; an exception of the send ends it too.   *)
clear_after_delay(i) ==
    /\ i \in DOMAIN attention.sleeping
    /\ attention.sleeping[i] <= now
    /\ attention' = [attention EXCEPT !.sleeping = Remove(@, i)]
    /\ canvas_commands' =
           IF ws_open
           THEN Append(canvas_commands,
                       Command("clear_attention", 0, 0, 0, 0, 0, {}, {}))
           ELSE canvas_commands
    /\ UNCHANGED <<next_y_position, last_x_position, bounds_vars>>
    /\ UNCHANGED <<function_queue, function_processor_task, task, next_call,
                   analysis_vars, snapshot_vars, now, vision_in_flight,
                   conn_vars, dispatched, results, outcomes, raised>>
    /\ UNCHANGED <<voice_vars, peer, grok_client>>


----------------------------------------------------------------------------
(* _process_function_queue: one pass of "while not self._function_queue.empty()" *)

handler_of_unknown_celebrates(name) ==
    IF name \in KnownTools THEN name ELSE "celebrate"

handler_of_point_to_draws(name) ==
    IF name = "point_to" THEN "draw_shape"
    ELSE IF name \in KnownTools THEN name ELSE "unknown"

(* The if/elif chain on the tool name; its else branch only prints. *)
handler_of(name) == IF name \in KnownTools THEN name ELSE "unknown"

queue_empty_with_one_left(q) == Len(q) <= 1

(* "is_last = self._function_queue.empty()", read right after the get. *)
queue_empty(q) == q = <<>>

process_function_queue(t) ==
    /\ task[t].pc = "loop"
    /\ IF function_queue = <<>>
       THEN /\ task' = [task EXCEPT ![t] = Done]
            /\ UNCHANGED <<function_queue, dispatched, analysis_vars,
                           vision_in_flight, results, outcomes, raised,
                           cursor_vars, attention>>
       ELSE LET i == queue_get(function_queue)
                req == function_queue[i]
                rest == Remove(function_queue, i)
                is_last == queue_empty(rest)
            IN  /\ function_queue' = rest
                /\ dispatched' = Append(dispatched,
                       [call_id |-> req.call_id, name |-> req.name,
                        args |-> req.args, is_last |-> is_last, task |-> t])
                /\ CASE handler_of(req.name) = "draw_on_canvas" ->
                            /\ handle_draw_on_canvas(t, req.call_id, req.args, is_last)
                            /\ UNCHANGED attention
                     [] handler_of(req.name) = "draw_shape" ->
                            /\ handle_draw_shape(t, req.call_id, req.args, is_last)
                            /\ UNCHANGED attention
                     [] handler_of(req.name) = "point_to" ->
                            handle_point_to(t, req.call_id, req.args, is_last)
                     [] handler_of(req.name) = "clear_canvas" ->
                            /\ handle_clear_canvas(t, req.call_id, is_last)
                            /\ UNCHANGED attention
                     [] handler_of(req.name) = "celebrate" ->
                            /\ handle_celebrate(t, req.call_id, req.args, is_last)
                            /\ UNCHANGED attention
                     [] handler_of(req.name) = "check_canvas" ->
                            /\ handle_check_canvas(t, req.call_id, is_last)
                            /\ UNCHANGED <<cursor_vars, attention>>
                     [] handler_of(req.name) = "circle_answer" ->
                            /\ handle_circle_answer(t, req.call_id, req.args, is_last)
                            /\ UNCHANGED attention
                     [] OTHER ->      \* "Unknown function call"
                            /\ Return(t)
                            /\ UNCHANGED <<analysis_vars, vision_in_flight,
                                           results, outcomes, raised, cursor_vars,
                                           attention>>
    /\ UNCHANGED <<function_processor_task, next_call, snapshot_vars, now,
                   conn_vars, bounds_vars>>
    /\ UNCHANGED <<voice_vars, peer, grok_client>>

----------------------------------------------------------------------------
(* Canvas snapshots *)

(* The cache invalidation of handle_canvas_update. *)
invalidate == NoText

(* The estimated height of a snapshot shape. *)
shape_height_default(shape) == 50

shape_height(shape) ==
    CASE shape.type = "text" -> line_height(shape.size)
      [] shape.type = "geo" -> get(shape.h, 100)
      [] shape.type = "draw" -> 80
      [] OTHER -> 50

(* "for shape in shapes: ... if shape_bottom > max_y: max_y = shape_bottom" *)
RECURSIVE max_bottom(_, _)
max_bottom(shapes, max_y) ==
    IF shapes = <<>>
    THEN max_y
    ELSE LET shape_bottom == Head(shapes).y + shape_height(Head(shapes))
         IN  max_bottom(Tail(shapes),
                        IF shape_bottom > max_y THEN shape_bottom ELSE max_y)

(* "Update position tracking based on ALL shapes": the new _next_y_position. *)
resync(shapes) ==
    IF shapes # <<>>
    THEN Max(next_y_position, max_bottom(shapes, 100) + 30)
    ELSE next_y_position

(* handle_canvas_update (CANVAS_UPDATE): the screenshot and its bounds are *)
(* optional.                                                               *)
handle_canvas_update(has_screenshot, shapes, bounds) ==
    /\ endpoint = "serving"
    /\ snapshots < MaxSnapshots
    /\ snapshots' = snapshots + 1
    /\ IF has_screenshot
       THEN /\ latest_screenshot' = snapshots + 1
            /\ screenshot_source' = "canvas_update"
            /\ screenshot_bounds' = IF bounds.known THEN bounds ELSE screenshot_bounds
            /\ last_check_canvas_result' = invalidate
       ELSE UNCHANGED <<latest_screenshot, screenshot_source, screenshot_bounds,
                        last_check_canvas_result>>
    /\ latest_shapes' = snapshots + 1
    /\ shape_list' = shapes
    /\ next_y_position' = resync(shapes)
    /\ UNCHANGED <<last_x_position, canvas_commands>>
    /\ UNCHANGED <<function_queue, function_processor_task, task, next_call,
                   vision_in_progress, last_check_canvas_time, now,
                   vision_in_flight, conn_vars, dispatched, results, outcomes, raised>>
    /\ UNCHANGED <<voice_vars, peer, client_vars>>

(* websocket_endpoint, VOICE_START with or without a screenshot, up to and *)
(* with its send_voice_state("listening").                                *)
voice_start(has_screenshot) ==
    /\ endpoint = "serving"
    /\ IF has_screenshot
       THEN /\ snapshots < MaxSnapshots
            /\ snapshots' = snapshots + 1
            /\ latest_screenshot' = snapshots + 1
            /\ screenshot_source' = "voice_start"
       ELSE /\ Len(voice_tasks) < MaxVoiceTasks
            /\ UNCHANGED <<snapshots, latest_screenshot, screenshot_source>>
    /\ voice_state_sent' = "listening"
    /\ UNCHANGED <<voice_tasks, peer, client_vars>>
    /\ UNCHANGED <<cursor_vars, bounds_vars>>
    /\ UNCHANGED <<function_queue, function_processor_task, task, next_call,
                   analysis_vars, latest_shapes, now, vision_in_flight,
                   conn_vars, dispatched, results, outcomes, raised>>

----------------------------------------------------------------------------
(* Environment *)

time_passes(seconds) ==
    /\ now + seconds <= MaxTime
    /\ now' = now + seconds
    /\ UNCHANGED <<cursor_vars, bounds_vars>>
    /\ UNCHANGED <<function_queue, function_processor_task, task, next_call,
                   analysis_vars, snapshot_vars, vision_in_flight, conn_vars,
                   dispatched, results, outcomes, raised>>
    /\ UNCHANGED <<voice_vars, peer, client_vars>>

(* The clock of the analysis: read every TickStep seconds. *)
Tick == time_passes(TickStep)

(* A second passes while no sleep is over: the event loop runs a task      *)
(* whose sleep has ended before the clock is read again.                   *)
second_passes ==
    /\ \A i \in DOMAIN attention.sleeping : attention.sleeping[i] > now
    /\ time_passes(1)

(* The client goes away: receive_json raises WebSocketDisconnect and the   *)
(* endpoint enters its finally clause.                                     *)
client_disconnect ==
    /\ endpoint = "serving"
    /\ endpoint' = "cleanup"
    /\ UNCHANGED <<cursor_vars, bounds_vars>>
    /\ UNCHANGED <<function_queue, function_processor_task, task, next_call,
                   analysis_vars, snapshot_vars, now, vision_in_flight,
                   grok_connected, dispatched, results, outcomes, raised>>
    /\ UNCHANGED <<voice_vars, peer, client_vars>>

(* GrokVoiceClient.disconnect: the flags are reset, the receive task is    *)
(* cancelled and the websocket closed.                                     *)
disconnect ==
    IF grok_client.ws
    THEN [grok_client EXCEPT !.ws = FALSE, !.session_configured = FALSE,
                             !.receive_loop = "cancelled"]
    ELSE [grok_client EXCEPT !.session_configured = FALSE]

(* disconnect_from_grok and remove_session. *)
disconnect_from_grok ==
    /\ endpoint = "cleanup"
    /\ endpoint' = "closed"
    /\ grok_connected' = FALSE
    /\ grok_client' = disconnect
    /\ UNCHANGED <<cursor_vars, bounds_vars>>
    /\ UNCHANGED <<function_queue, function_processor_task, task, next_call,
                   analysis_vars, snapshot_vars, now, vision_in_flight,
                   dispatched, results, outcomes, raised>>
    /\ UNCHANGED <<voice_vars, peer, attention>>

(* The upstream connection closes: the receive loop, at its next message  *)
(* or at the send it is suspended in, gets ConnectionClosed, sets          *)
(* _connected = False and ends.                                            *)
grok_connection_closed ==
    /\ grok_connected
    /\ grok_connected' = FALSE
    /\ grok_client' = [grok_client EXCEPT !.receive_loop = "ended"]
    /\ UNCHANGED <<cursor_vars, bounds_vars>>
    /\ UNCHANGED <<function_queue, function_processor_task, task, next_call,
                   analysis_vars, snapshot_vars, now, vision_in_flight,
                   endpoint, dispatched, results, outcomes, raised>>
    /\ UNCHANGED <<voice_vars, peer, attention>>

----------------------------------------------------------------------------
(* The connection to the upstream API *)

Count(messages, type) ==
    Cardinality({i \in 1..Len(messages) : messages[i] = type})

(* 'await self._ws.send(json.dumps(msg))': the message is sent upstream. *)
ws_send(client, type) == [client EXCEPT !.sent = Append(@, type)]

is_ready_when_connected == grok_connected

(* GrokVoiceClient.is_ready *)
is_ready == grok_connected /\ grok_client.session_configured

(* connect_to_grok up to the first sleep of its wait for is_ready:         *)
(* GrokVoiceClient.connect opens the websocket and creates the receive     *)
(* task, or websockets.connect raises and the endpoint's handler of        *)
(* Exception leads to its finally clause.                                  *)
connect_to_grok(ok) ==
    /\ endpoint = "accepted"
    /\ IF ok
       THEN /\ grok_connected' = TRUE
            /\ grok_client' = [grok_client EXCEPT !.ws = TRUE,
                                                  !.session_configured = FALSE,
                                                  !.receive_loop = "waiting"]
            /\ endpoint' = "polling"
       ELSE /\ endpoint' = "cleanup"
            /\ UNCHANGED <<grok_connected, grok_client>>
    /\ UNCHANGED <<cursor_vars, bounds_vars>>
    /\ UNCHANGED <<function_queue, function_processor_task, task, next_call,
                   analysis_vars, snapshot_vars, now, vision_in_flight,
                   dispatched, results, outcomes, raised>>
    /\ UNCHANGED <<voice_vars, peer, attention>>

(* "while not self.grok_client.is_ready: await asyncio.sleep(0.1)": the    *)
(* test succeeds, connect_to_grok returns and the endpoint sends           *)
(* SESSION_READY.  While the test fails the loop sleeps and tests again.   *)
wait_for_ready ==
    /\ endpoint = "polling"
    /\ is_ready
    /\ endpoint' = "serving"
    /\ UNCHANGED <<cursor_vars, bounds_vars>>
    /\ UNCHANGED <<function_queue, function_processor_task, task, next_call,
                   analysis_vars, snapshot_vars, now, vision_in_flight,
                   grok_connected, dispatched, results, outcomes, raised>>
    /\ UNCHANGED <<voice_vars, peer, client_vars>>

(* A step of the receive loop that leaves the client as given. *)
receive_loop_step(client) ==
    /\ grok_connected
    /\ grok_client' = client
    /\ UNCHANGED <<cursor_vars, bounds_vars>>
    /\ UNCHANGED <<function_queue, function_processor_task, task, next_call,
                   analysis_vars, snapshot_vars, now, vision_in_flight,
                   conn_vars, dispatched, results, outcomes, raised>>
    /\ UNCHANGED <<voice_vars, peer, attention>>

(* conversation.created: _configure_session sends session.update. *)
conversation_created ==
    /\ grok_client.receive_loop = "waiting"
    /\ grok_client.conversations < MaxConversations
    /\ receive_loop_step(
           [ws_send(grok_client, "session.update")
               EXCEPT !.conversations = @ + 1])

(* session.updated, which the upstream API sends in answer to a            *)
(* session.update: the session is configured and _send_initial_greeting    *)
(* runs to its first send.                                                 *)
session_updated ==
    /\ grok_client.receive_loop = "waiting"
    /\ grok_client.session_updates < Count(grok_client.sent, "session.update")
    /\ receive_loop_step(
           [ws_send(grok_client, Greeting[1])
               EXCEPT !.session_configured = TRUE,
                      !.session_updates = @ + 1,
                      !.receive_loop = "greeting_1"])

(* _send_initial_greeting after its first and after its second send. *)
send_initial_greeting ==
    \/ /\ grok_client.receive_loop = "greeting_1"
       /\ receive_loop_step(
              [ws_send(grok_client, Greeting[2]) EXCEPT !.receive_loop = "greeting_2"])
    \/ /\ grok_client.receive_loop = "greeting_2"
       /\ receive_loop_step(
              [ws_send(grok_client, Greeting[3]) EXCEPT !.receive_loop = "waiting"])

(* GrokVoiceClient.send_audio behind handle_voice_audio's test of          *)
(* is_connected.                                                           *)
send_audio ==
    IF grok_connected /\ grok_client.ws /\ grok_client.session_configured
    THEN ws_send(grok_client, "input_audio_buffer.append")
    ELSE grok_client

(* websocket_endpoint, VOICE_AUDIO: handle_voice_audio. *)
handle_voice_audio ==
    /\ endpoint = "serving"
    /\ Count(grok_client.sent, "input_audio_buffer.append") < MaxAudio
    /\ grok_client' = send_audio
    /\ UNCHANGED <<cursor_vars, bounds_vars>>
    /\ UNCHANGED <<function_queue, function_processor_task, task, next_call,
                   analysis_vars, snapshot_vars, now, vision_in_flight,
                   conn_vars, dispatched, results, outcomes, raised>>
    /\ UNCHANGED <<voice_vars, peer, attention>>

----------------------------------------------------------------------------
(* Voice state *)

(* A GrokVoiceClient callback: 'asyncio.create_task(self.send_voice_state( *)
(* state))'.  The task runs later; tasks start in the order of creation.   *)
create_task_send_voice_state(state) ==
    /\ grok_connected
    /\ Len(voice_tasks) < MaxVoiceTasks
    /\ voice_tasks' = Append(voice_tasks, state)
    /\ UNCHANGED <<voice_state_sent, peer, attention>>
    /\ UNCHANGED <<cursor_vars, bounds_vars>>
    /\ UNCHANGED <<function_queue, function_processor_task, task, next_call,
                   analysis_vars, snapshot_vars, now, vision_in_flight,
                   conn_vars, dispatched, results, outcomes, raised>>

(* A callback of an event whose handler leaves the upstream client alone. *)
create_send_voice_state(state) ==
    /\ create_task_send_voice_state(state)
    /\ UNCHANGED grok_client

(* input_audio_buffer.speech_started *)
on_speech_started == create_send_voice_state("listening")

(* input_audio_buffer.speech_stopped: _notify_processing sends the state   *)
(* and then the tutor status.                                              *)
on_speech_stopped == create_send_voice_state("processing")

(* response.created *)
on_response_started == create_send_voice_state("speaking")

(* response.done *)
on_response_done == create_send_voice_state("idle")

(* A task created by a callback runs send_voice_state; an exception of the *)
(* send ends the task.                                                     *)
send_voice_state_task ==
    /\ voice_tasks # <<>>
    /\ voice_tasks' = Tail(voice_tasks)
    /\ voice_state_sent' = IF ws_open THEN Head(voice_tasks) ELSE voice_state_sent
    /\ UNCHANGED <<peer, client_vars>>
    /\ UNCHANGED <<cursor_vars, bounds_vars>>
    /\ UNCHANGED <<function_queue, function_processor_task, task, next_call,
                   analysis_vars, snapshot_vars, now, vision_in_flight,
                   conn_vars, dispatched, results, outcomes, raised>>

----------------------------------------------------------------------------
(* A second session *)

connection_of_shared(websocket) == 1

(* websocket_endpoint: 'connection = TutorConnection(websocket, session,   *)
(* sample_rate)'.  The first session's websocket is 1, the second's 2.     *)
connection_of(websocket) == websocket

(* The attributes of a connection: those of connection 1 are the variables *)
(* of the first session.                                                   *)
attributes(connection) ==
    IF connection = 1
    THEN [next_y_position |-> next_y_position,
          last_x_position |-> last_x_position,
          function_queue |-> function_queue,
          vision_in_progress |-> vision_in_progress,
          last_check_canvas_time |-> last_check_canvas_time,
          last_check_canvas_result |-> last_check_canvas_result]
    ELSE peer.attributes

(* A step of the second session's coroutines that assigns these attributes *)
(* to this connection.                                                     *)
peer_step(connection, assigned, calls) ==
    /\ peer.steps < MaxPeerSteps
    /\ peer' = [steps |-> peer.steps + 1,
                next_call |-> peer.next_call + calls,
                attributes |-> IF connection = 1 THEN peer.attributes
                               ELSE assigned]
    /\ LET own == IF connection = 1 THEN assigned ELSE attributes(1)
       IN  /\ next_y_position' = own.next_y_position
           /\ last_x_position' = own.last_x_position
           /\ function_queue' = own.function_queue
           /\ vision_in_progress' = own.vision_in_progress
           /\ last_check_canvas_time' = own.last_check_canvas_time
           /\ last_check_canvas_result' = own.last_check_canvas_result
    /\ UNCHANGED <<canvas_commands, bounds_vars, voice_vars, client_vars>>
    /\ UNCHANGED <<function_processor_task, task, next_call, snapshot_vars, now,
                   vision_in_flight, conn_vars, dispatched, results, outcomes,
                   raised>>

PeerTools == {"draw_shape", "clear_canvas", "check_canvas"}

(* _on_function_call of the second session's connection. *)
peer_on_function_call(name) ==
    LET connection == connection_of(2)
        self == attributes(connection)
    IN  peer_step(connection,
                  [self EXCEPT !.function_queue =
                      Append(@, [call_id |-> peer.next_call + 1, name |-> name,
                                 args |-> NoArgs])],
                  1)

(* The handlers of the second session's connection, each from its entry to *)
(* its return: draw_shape without arguments, clear_canvas, and check_canvas *)
(* whose analysis yields the fallback description.                         *)
peer_handler(self, name) ==
    CASE name = "draw_shape" ->
            [self EXCEPT !.last_x_position = self.last_x_position + 150,
                         !.next_y_position = self.next_y_position + 100 + 20]
      [] name = "clear_canvas" ->
            [self EXCEPT !.next_y_position = 100, !.last_x_position = 100]
      [] name = "check_canvas" ->
            IF \/ self.vision_in_progress
               \/ /\ now - self.last_check_canvas_time < check_canvas_cooldown
                  /\ self.last_check_canvas_result # NoText
            THEN self
            ELSE [self EXCEPT !.last_check_canvas_time = now,
                              !.last_check_canvas_result = FallbackText(0)]
      [] OTHER -> self

(* _process_function_queue of the second session's connection: one request *)
(* is dequeued and handled.                                                *)
peer_process_function_queue ==
    LET connection == connection_of(2)
        self == attributes(connection)
    IN  /\ self.function_queue # <<>>
        /\ peer_step(connection,
                     peer_handler([self EXCEPT !.function_queue = Tail(@)],
                                  Head(self.function_queue).name),
                     0)

(* handle_canvas_update of the second session's connection. *)
peer_handle_canvas_update(shapes) ==
    LET connection == connection_of(2)
        self == attributes(connection)
    IN  peer_step(connection,
                  [self EXCEPT !.next_y_position =
                      IF shapes # <<>>
                      THEN Max(@, max_bottom(shapes, 100) + 30)
                      ELSE @],
                  0)

----------------------------------------------------------------------------
(* Specifications *)

TaskStep(t) ==
    \/ process_function_queue(t)
    \/ handle_celebrate_result(t)
    \/ handle_check_canvas_try(t)
    \/ handle_check_canvas_call_vision(t)
    \/ \E ok \in BOOLEAN : handle_check_canvas_vision_done(t, ok)

Next ==
    \/ \E name \in SeqTools : on_function_call(name, NoArgs)
    \/ \E t \in TaskIds : process_function_queue(t)
    \/ \E t \in TaskIds : handle_celebrate_result(t)
    \/ \E t \in TaskIds : handle_check_canvas_try(t)
    \/ \E t \in TaskIds : handle_check_canvas_call_vision(t)
    \/ \E t \in TaskIds, ok \in BOOLEAN : handle_check_canvas_vision_done(t, ok)
    \/ \E has_screenshot \in BOOLEAN :
            handle_canvas_update(has_screenshot, <<>>, NoBounds)
    \/ voice_start(TRUE)
    \/ Tick
    \/ client_disconnect
    \/ disconnect_from_grok
    \/ grok_connection_closed

Spec == Init /\ [][Next]_vars

(* The sequencer with the events that enqueue calls, run handlers or make  *)
(* their sends fail; the clock and CANVAS_UPDATE, which do neither, are    *)
(* left out.  The event loop runs every task that is ready, and every      *)
(* analysis call returns (analyze_canvas_screenshot has a 90 s timeout).   *)
SeqNext ==
    \/ \E name \in SeqTools : on_function_call(name, NoArgs)
    \/ \E t \in TaskIds : process_function_queue(t)
    \/ \E t \in TaskIds : handle_celebrate_result(t)
    \/ \E t \in TaskIds : handle_check_canvas_try(t)
    \/ \E t \in TaskIds : handle_check_canvas_call_vision(t)
    \/ \E t \in TaskIds, ok \in BOOLEAN : handle_check_canvas_vision_done(t, ok)
    \/ voice_start(TRUE)
    \/ client_disconnect
    \/ disconnect_from_grok
    \/ grok_connection_closed

FairSeqSpec ==
    Init /\ [][SeqNext]_vars /\ \A t \in TaskIds : WF_vars(TaskStep(t))

(* The same, and the endpoint's finally clause runs to its end once it is  *)
(* entered.                                                                *)
FairTeardownSpec ==
    /\ Init /\ [][SeqNext]_vars
    /\ \A t \in TaskIds : WF_vars(TaskStep(t))
    /\ WF_vars(disconnect_from_grok)

----------------------------------------------------------------------------
(* The drawing tools and the canvas snapshots *)

(* Item lists of draw_on_canvas: one item given just above the cursor, and *)
(* a small and a large item at the cursor after an item without text.      *)
ItemLists ==
    {<<Item(TRUE, {300}, {90}, "m")>>,
     <<Item(FALSE, {}, {}, "m"), Item(TRUE, {}, {}, "s"), Item(TRUE, {200}, {}, "l")>>}

(* The drawing calls the upstream model sends. *)
CursorCalls ==
    {[name |-> "draw_on_canvas", args |-> Args(items, {}, {}, {}, {}, {})] :
        items \in ItemLists}
    \cup {[name |-> "draw_shape", args |-> args] :
            args \in {Args(<<>>, {"circle"}, {}, {}, {200}, {}),
                      Args(<<>>, {"rectangle"}, {400}, {300}, {120}, {60})}}
    \cup {[name |-> "clear_canvas", args |-> NoArgs]}
    \cup {[name |-> "circle_answer", args |-> Args(<<>>, {}, {20}, {30}, {80}, {})]}

(* The shape lists of the snapshots the client sends: none, three texts,   *)
(* a text at the top of the canvas, and a geo, a freehand and an arrow.    *)
ShapeLists ==
    {<<>>,
     <<Shape("text", 100, "m", {}), Shape("text", 200, "m", {}),
       Shape("text", 140, "s", {})>>,
     <<Shape("text", 0, "m", {})>>,
     <<Shape("geo", 300, "m", {200}), Shape("draw", 250, "m", {}),
       Shape("arrow", 120, "m", {})>>}

(* A CANVAS_UPDATE carries a screenshot with its bounds, or neither. *)
CursorUpdates ==
    {[has_screenshot |-> shapes # <<>> /\ shapes[1].y >= 100,
      shapes |-> shapes,
      bounds |-> IF shapes # <<>> /\ shapes[1].y >= 100
                 THEN Bounds(50, 80, 10) ELSE NoBounds] :
        shapes \in ShapeLists}

CursorStep(t) ==
    \/ process_function_queue(t)
    \/ handle_draw_on_canvas_next(t)
    \/ handle_clear_canvas_reset(t)
    \/ send_tutor_status_drawing(t)
    \/ send_drawing_result(t)

CursorNext ==
    \/ \E call \in CursorCalls : on_function_call(call.name, call.args)
    \/ \E t \in TaskIds : process_function_queue(t)
    \/ \E t \in TaskIds : handle_draw_on_canvas_next(t)
    \/ \E t \in TaskIds : handle_clear_canvas_reset(t)
    \/ \E t \in TaskIds : send_tutor_status_drawing(t)
    \/ \E t \in TaskIds : send_drawing_result(t)
    \/ \E u \in CursorUpdates :
            handle_canvas_update(u.has_screenshot, u.shapes, u.bounds)

(* The session under drawing calls and canvas snapshots while the client   *)
(* and the upstream model stay connected.                                  *)
CursorSpec == Init /\ [][CursorNext]_vars

(* Tool calls whose arguments are malformed: every field missing, or one   *)
(* field of a type its conversion rejects.                                 *)
ArgsCalls ==
    {[name |-> name, args |-> NoArgs] :
        name \in {"point_to", "draw_shape", "circle_answer", "celebrate"}}
    \cup {[name |-> "point_to", args |-> IllTyped({"x"})],
          [name |-> "draw_shape", args |-> IllTyped({"width"})],
          [name |-> "circle_answer", args |-> IllTyped({"height"})],
          [name |-> "celebrate", args |-> IllTyped({"intensity"})]}

ArgsNext ==
    \/ \E call \in ArgsCalls : on_function_call(call.name, call.args)
    \/ \E t \in TaskIds : process_function_queue(t)
    \/ \E t \in TaskIds : send_tutor_status_drawing(t)
    \/ \E t \in TaskIds : send_drawing_result(t)
    \/ \E t \in TaskIds : handle_celebrate_result(t)

(* The callbacks of the upstream client, the tasks they create and         *)
(* VOICE_START, in any order.                                              *)
VoiceNext ==
    \/ on_speech_started
    \/ on_speech_stopped
    \/ on_response_started
    \/ on_response_done
    \/ send_voice_state_task
    \/ \E has_screenshot \in BOOLEAN : voice_start(has_screenshot)

VoiceSpec == Init /\ [][VoiceNext]_vars

(* The tool calls of the first session in the two-session specification. *)
PeerCalls == {"draw_shape", "check_canvas"}

PeerNext ==
    \/ \E name \in PeerCalls : on_function_call(name, NoArgs)
    \/ \E t \in TaskIds : process_function_queue(t)
    \/ \E t \in TaskIds : send_tutor_status_drawing(t)
    \/ \E t \in TaskIds : send_drawing_result(t)
    \/ \E t \in TaskIds : handle_check_canvas_try(t)
    \/ \E name \in PeerTools : peer_on_function_call(name)
    \/ peer_process_function_queue
    \/ peer_handle_canvas_update(<<Shape("text", 200, "m", {})>>)

(* Two sessions served by one process: the first by its drawing and its   *)
(* analysis with no screenshot stored, the second by the effect of its     *)
(* operations on its connection's attributes.                              *)
PeerSpec == Init /\ [][PeerNext]_vars

(* The session under tool calls with malformed arguments while the client  *)
(* and the upstream model stay connected.                                  *)
ArgsSpec == Init /\ [][ArgsNext]_vars

(* One call of each tool. *)
ToolsCalls ==
    {[name |-> "draw_on_canvas",
      args |-> Args(<<Item(TRUE, {300}, {90}, "m")>>, {}, {}, {}, {}, {})],
     [name |-> "draw_shape", args |-> Args(<<>>, {"circle"}, {}, {}, {200}, {})],
     [name |-> "point_to", args |-> Args(<<>>, {}, {250}, {180}, {}, {})],
     [name |-> "clear_canvas", args |-> NoArgs],
     [name |-> "celebrate", args |-> NoArgs],
     [name |-> "check_canvas", args |-> NoArgs],
     [name |-> "circle_answer", args |-> Args(<<>>, {}, {20}, {30}, {80}, {})]}

(* The snapshots of this specification: the three texts with their        *)
(* screenshot, and the snapshot of an empty canvas.                        *)
ToolsUpdates ==
    {u \in CursorUpdates : u.shapes = <<>> \/ u.shapes[1].y = 100}

ToolsNext ==
    \/ \E call \in ToolsCalls : on_function_call(call.name, call.args)
    \/ \E t \in TaskIds : process_function_queue(t)
    \/ \E t \in TaskIds : handle_draw_on_canvas_next(t)
    \/ \E t \in TaskIds : handle_clear_canvas_reset(t)
    \/ \E t \in TaskIds : send_tutor_status_drawing(t)
    \/ \E t \in TaskIds : send_drawing_result(t)
    \/ \E t \in TaskIds : handle_celebrate_result(t)
    \/ \E t \in TaskIds : handle_check_canvas_try(t)
    \/ \E t \in TaskIds : handle_check_canvas_call_vision(t)
    \/ \E t \in TaskIds, ok \in BOOLEAN : handle_check_canvas_vision_done(t, ok)
    \/ \E u \in ToolsUpdates :
            handle_canvas_update(u.has_screenshot, u.shapes, u.bounds)

(* The session under calls of all seven tools and canvas snapshots while   *)
(* the client and the upstream model stay connected.                       *)
ToolsSpec == Init /\ [][ToolsNext]_vars

ConnectNext ==
    \/ \E ok \in BOOLEAN : connect_to_grok(ok)
    \/ conversation_created
    \/ session_updated
    \/ send_initial_greeting
    \/ wait_for_ready
    \/ handle_voice_audio
    \/ grok_connection_closed
    \/ client_disconnect
    \/ disconnect_from_grok

(* A session from the accepted websocket on: the connection to the         *)
(* upstream API, its configuration, the audio of the client and the        *)
(* teardown.                                                               *)
ConnectSpec == ConnectInit /\ [][ConnectNext]_vars

(* The same when every coroutine that can run does: the endpoint, the      *)
(* receive loop while messages arrive, and the upstream API answers the    *)
(* messages it is sent for as long as the connection is open.              *)
FairConnectSpec ==
    /\ ConnectInit /\ [][ConnectNext]_vars
    /\ WF_vars(\E ok \in BOOLEAN : connect_to_grok(ok))
    /\ WF_vars(conversation_created)
    /\ WF_vars(session_updated)
    /\ WF_vars(send_initial_greeting)
    /\ WF_vars(wait_for_ready)

AttentionNext ==
    \/ on_function_call("point_to", Args(<<>>, {}, {250}, {180}, {}, {}))
    \/ \E t \in TaskIds : process_function_queue(t)
    \/ \E t \in TaskIds : send_drawing_result(t)
    \/ \E i \in 1..MaxCalls : clear_after_delay(i)
    \/ second_passes

(* The session under point_to calls and the clock, second by second, while *)
(* the client and the upstream model stay connected.                       *)
AttentionSpec == Init /\ [][AttentionNext]_vars

(* The tool calls of the specification of clear_canvas between analyses. *)
ClearCheckCalls == {"check_canvas", "clear_canvas"}

(* One drain task at most per call delivered. *)
ClearTaskIds == 1..MaxClearCalls

ClearCheckInit == InitOf(MaxClearCalls)

ClearCheckNext ==
    \/ \E name \in ClearCheckCalls :
            on_function_call_of(MaxClearCalls, name, NoArgs)
    \/ \E t \in ClearTaskIds : process_function_queue(t)
    \/ \E t \in ClearTaskIds : handle_clear_canvas_reset(t)
    \/ \E t \in ClearTaskIds : send_drawing_result(t)
    \/ \E t \in ClearTaskIds : handle_check_canvas_try(t)
    \/ \E t \in ClearTaskIds : handle_check_canvas_call_vision(t)
    \/ \E t \in ClearTaskIds, ok \in BOOLEAN : handle_check_canvas_vision_done(t, ok)
    \/ \E has_screenshot \in BOOLEAN :
            handle_canvas_update(has_screenshot, <<>>, NoBounds)
    \/ Tick

(* The session under analyses and clear_canvas calls, canvas snapshots and *)
(* the clock, while the client and the upstream model stay connected.      *)
ClearCheckSpec == ClearCheckInit /\ [][ClearCheckNext]_vars

----------------------------------------------------------------------------
(* Properties of the tool-call sequencer *)

DispatchedIds == {dispatched[i].call_id : i \in 1..Len(dispatched)}
BatchIndices(t) == {i \in 1..Len(dispatched) : dispatched[i].task = t}
ReplyRequests(t) ==
    {i \in 1..Len(results) : results[i].task = t /\ results[i].request_response}
CheckPcs == {"check_cleared", "check_status_sent", "check_vision"}

(* C1: the requests are dequeued, and so their handlers started, in        *)
(* exactly the order in which the calls were enqueued (call ids number the *)
(* calls in arrival order), whatever the interleaving of enqueues with the *)
(* handlers' suspension points.                                            *)
C1_FifoOrder == \A i \in 1..Len(dispatched) : dispatched[i].call_id = i

(* Two calls handled by one loop, the second enqueued while the first      *)
(* handler was suspended (the queue was empty when the first was taken).   *)
C1_Witness ==
    /\ Len(dispatched) >= 2
    /\ dispatched[1].is_last
    /\ dispatched[2].task = dispatched[1].task

(* C2: at most one drain loop is active at any time, so handlers run one   *)
(* at a time; an enqueue while a loop is active joins it, and an enqueue   *)
(* with no active loop starts exactly one new loop.                        *)
C2_SingleDrainLoop ==
    /\ [](Cardinality(ActiveTasks) <= 1)
    /\ [][next_call' # next_call =>
            IF ActiveTasks # {}
            THEN /\ BornTasks' = BornTasks
                 /\ function_processor_task' = function_processor_task
                 /\ ActiveTasks' = ActiveTasks
            ELSE /\ Cardinality(BornTasks') = Cardinality(BornTasks) + 1
                 /\ ActiveTasks' = {function_processor_task'}
                 /\ function_processor_task' \notin BornTasks]_vars

(* A call has joined the one active loop while its handler is suspended.   *)
C2_Witness ==
    \E t \in TaskIds :
        /\ task[t].pc \in CheckPcs \cup {"celebrate_sent"}
        /\ ActiveTasks = {t}
        /\ function_queue # <<>>

(* C3: in every drained batch exactly one handler is given is_last = TRUE, *)
(* namely the last one dequeued by that loop, and at most one reply        *)
(* request (response.create) is sent upstream per batch.                   *)
C3_OneLastPerBatch ==
    \A t \in TaskIds :
        /\ \A i \in BatchIndices(t) :
               dispatched[i].is_last => \A j \in BatchIndices(t) : j <= i
        /\ Cardinality(ReplyRequests(t)) <= 1

(* C4: every call enqueued is eventually dequeued and dispatched, and none *)
(* is dispatched twice.                                                    *)
C4_DispatchedExactlyOnce ==
    /\ [](\A i, j \in 1..Len(dispatched) :
              dispatched[i].call_id = dispatched[j].call_id => i = j)
    /\ \A c \in CallIds : (next_call >= c) ~> (c \in DispatchedIds)

(* A call that arrived after the previous loop had ended was dispatched by *)
(* a new loop.                                                             *)
C4_Witness ==
    /\ Len(dispatched) = 2
    /\ dispatched[1].task # dispatched[2].task

(* C5: a handler exception does not end the drain loop: the loop that      *)
(* caught it stays active, and every request queued or enqueued later is   *)
(* dequeued and dispatched.                                                *)
C5_ExceptionKeepsDraining ==
    /\ [][raised' # raised => ActiveTasks' = ActiveTasks]_vars
    /\ (raised # {}) ~> (function_queue = <<>> /\ DispatchedIds = 1..next_call)

(* A request was dispatched by the same loop after an earlier handler of   *)
(* that loop had raised.                                                   *)
C5_Witness ==
    \E i, j \in 1..Len(dispatched) :
        /\ i < j
        /\ dispatched[i].call_id \in raised
        /\ dispatched[j].task = dispatched[i].task

----------------------------------------------------------------------------
(* Properties of the analysis coordinator *)

(* C6: at most one analyze_canvas_screenshot call is in flight at any time.*)
C6_OneAnalysisInFlight == vision_in_flight <= 1

(* An analysis is in flight while another check_canvas request is queued.  *)
C6_Witness ==
    /\ vision_in_flight = 1
    /\ function_queue # <<>>
    /\ function_queue[1].name = "check_canvas"

(* C7: a check_canvas that starts while vision_in_progress is set returns  *)
(* Busy in that same step: no analysis call is issued and                  *)
(* vision_in_progress, the cached result and the last request time are     *)
(* unchanged; and whenever an analysis is in flight the flag is set, so    *)
(* every request overlapping it is answered Busy.                          *)
C7_BusyWhileInProgress ==
    /\ [][(/\ Len(dispatched') = Len(dispatched) + 1
           /\ dispatched'[Len(dispatched')].name = "check_canvas"
           /\ vision_in_progress)
          => /\ Len(outcomes') = Len(outcomes) + 1
             /\ outcomes'[Len(outcomes')].kind = "Busy"
             /\ outcomes'[Len(outcomes')].call_id = dispatched'[Len(dispatched')].call_id
             /\ vision_in_flight' = vision_in_flight
             /\ UNCHANGED analysis_vars
             /\ task'[dispatched'[Len(dispatched')].task].pc = "loop"]_vars
    /\ [](vision_in_flight > 0 => vision_in_progress)

(* A check_canvas has been answered Busy. *)
C7_Witness == \E i \in 1..Len(outcomes) : outcomes[i].kind = "Busy"

(* C8: whenever no check_canvas handler is executing, vision_in_progress   *)
(* is false.                                                               *)
C8_FlagOnlyWhileChecking ==
    vision_in_progress => \E t \in TaskIds : task[t].pc \in CheckPcs

(* C9: no Cached outcome carries a vision text read from a screenshot      *)
(* older than the latest one received when it is served.  Stated for the   *)
(* case the claim singles out, where the latest screenshot came by         *)
(* CANVAS_UPDATE (whose handler invalidates the cache): an analysis in     *)
(* flight when that screenshot arrived must not be served as Cached.       *)
C9_NoStaleCached ==
    \A i \in 1..Len(outcomes) :
        (/\ outcomes[i].kind = "Cached"
         /\ outcomes[i].text.src = "vision"
         /\ outcomes[i].source = "canvas_update")
        => outcomes[i].text.snap = outcomes[i].current

(* C10: every arrival of a new screenshot, by CANVAS_UPDATE or by          *)
(* VOICE_START, clears the cached result.                                  *)
C10_SnapshotInvalidates ==
    [][latest_screenshot' # latest_screenshot
         => last_check_canvas_result' = NoText]_vars

(* A check_canvas request is dequeued and its handler entered. *)
CheckStarts ==
    /\ Len(dispatched') = Len(dispatched) + 1
    /\ dispatched'[Len(dispatched')].name = "check_canvas"

(* The request just dequeued got this outcome in the same step. *)
Answered(kind) ==
    /\ Len(outcomes') = Len(outcomes) + 1
    /\ outcomes'[Len(outcomes')].kind = kind
    /\ outcomes'[Len(outcomes')].call_id = dispatched'[Len(dispatched')].call_id

(* The request just dequeued started a new analysis request. *)
FreshStarted ==
    /\ outcomes' = outcomes
    /\ last_check_canvas_time' = now
    /\ vision_in_progress'
    /\ ws_open => task'[dispatched'[Len(dispatched')].task].pc = "check_cleared"

FreshOutcomes == {i \in 1..Len(outcomes) : outcomes[i].kind = "Fresh"}

(* C11: with no analysis in progress, a check_canvas that starts less than *)
(* the cooldown after the last request's start while the result of a Fresh *)
(* outcome is still stored returns Cached carrying that result; one that   *)
(* starts after the stored result was invalidated starts a new analysis    *)
(* (Fresh) even inside the cooldown window.                                *)
C11_CachedThenFreshAfterInvalidate ==
    [][(/\ CheckStarts
        /\ ~vision_in_progress
        /\ FreshOutcomes # {}
        /\ now - last_check_canvas_time < check_canvas_cooldown)
       => IF last_check_canvas_result # NoText
          THEN /\ Answered("Cached")
               /\ outcomes'[Len(outcomes')].text = last_check_canvas_result
               /\ \E i \in FreshOutcomes : outcomes[i].text = last_check_canvas_result
          ELSE FreshStarted]_vars

(* Two Fresh outcomes with the clock never advanced: the second request    *)
(* came inside the cooldown window after the first result was invalidated. *)
C11_Witness ==
    /\ Len(outcomes) = 2
    /\ outcomes[1].kind = "Fresh"
    /\ outcomes[2].kind = "Fresh"
    /\ now = StartTime

(* C12: a Cached outcome returns exactly the stored text, issues no        *)
(* analysis call and leaves the last request time, the stored result and   *)
(* vision_in_progress unchanged; a request that starts at or after the     *)
(* last request time plus the cooldown is not answered Cached but starts a *)
(* new analysis.                                                           *)
C12_CachedChangesNothing ==
    /\ [][(CheckStarts /\ Answered("Cached"))
          => /\ outcomes'[Len(outcomes')].text = last_check_canvas_result
             /\ last_check_canvas_result # NoText
             /\ vision_in_flight' = vision_in_flight
             /\ UNCHANGED analysis_vars
             /\ task'[dispatched'[Len(dispatched')].task].pc = "loop"]_vars
    /\ [][(/\ CheckStarts
           /\ ~vision_in_progress
           /\ now - last_check_canvas_time >= check_canvas_cooldown)
          => FreshStarted]_vars

(* A second request answered Cached with the first one's text, which is    *)
(* still the stored result.                                                *)
C12_Witness ==
    /\ Len(outcomes) = 2
    /\ outcomes[1].kind = "Fresh"
    /\ outcomes[2].kind = "Cached"
    /\ outcomes[2].text = outcomes[1].text
    /\ last_check_canvas_result = outcomes[1].text

(* C13: a Fresh outcome that carries the degraded fallback text leaves the *)
(* stored result as it was before the request.                             *)
C13_FallbackNotCached ==
    [][(/\ Len(outcomes') = Len(outcomes) + 1
        /\ outcomes'[Len(outcomes')].kind = "Fresh"
        /\ outcomes'[Len(outcomes')].text.src = "fallback")
       => last_check_canvas_result' = last_check_canvas_result]_vars

(* The handler reaches the end of the analysis: the call returns, or there *)
(* is no screenshot to analyse.                                            *)
AnalysisSettled(t) ==
    \/ task[t].pc = "check_vision" /\ vision_in_flight' < vision_in_flight
    \/ task[t].pc = "check_cleared" /\ latest_screenshot = 0 /\ task'[t] # task[t]

(* C14: however the analysis ends (content, failure, timeout, or skipped   *)
(* for lack of a screenshot) the handler returns normally with a non-empty *)
(* Fresh text, sent upstream while the upstream client is connected; it    *)
(* does not raise and the connection state is untouched.  Every outcome is *)
(* Fresh, Cached or Busy.                                                  *)
C14_AlwaysATextualOutcome ==
    /\ [][\A t \in TaskIds : AnalysisSettled(t)
            => /\ Len(outcomes') = Len(outcomes) + 1
               /\ outcomes'[Len(outcomes')].kind = "Fresh"
               /\ outcomes'[Len(outcomes')].call_id = task[t].call_id
               /\ outcomes'[Len(outcomes')].text # NoText
               /\ task'[t].pc = "loop"
               /\ raised' = raised
               /\ UNCHANGED conn_vars
               /\ grok_connected
                    => /\ Len(results') = Len(results) + 1
                       /\ results'[Len(results')].call_id = task[t].call_id]_vars
    /\ [](\A i \in 1..Len(outcomes) :
              /\ outcomes[i].kind \in {"Fresh", "Cached", "Busy"}
              /\ outcomes[i].kind # "Busy" => outcomes[i].text # NoText)

(* Both endings have happened: a fallback text after a failed analysis of  *)
(* a stored screenshot, and a vision text.                                 *)
C14_Witness ==
    /\ Len(outcomes) = 2
    /\ outcomes[1].text.src = "fallback"
    /\ latest_screenshot # 0
    /\ outcomes[1].current # 0 \/ outcomes[1].source # "none"
    /\ outcomes[2].text.src = "vision"

----------------------------------------------------------------------------
(* Properties of the position tracking and of the coordinate transform *)

(* No handler is suspended between two of its steps. *)
Quiescent == \A t \in TaskIds : task[t].pc \in {"unborn", "loop", "done"}

ClearIndices ==
    {i \in 1..Len(canvas_commands) : canvas_commands[i].kind = "clear"}
DrawnSinceClear ==
    {canvas_commands[i] :
        i \in {j \in 1..Len(canvas_commands) : \A k \in ClearIndices : k < j}}

(* A canvas command is sent in this step. *)
Places == Len(canvas_commands') = Len(canvas_commands) + 1
Placed == canvas_commands'[Len(canvas_commands')]

(* C15: whenever no handler is in progress, next_y is at or below (greater *)
(* than or equal to) the bottom edge y + height of every element drawn     *)
(* since the last clear (text items, shapes, ellipses of circle_answer)    *)
(* and of every shape of the latest snapshot.                              *)
C15_CursorBelowKnownShapes ==
    Quiescent =>
        /\ \A c \in DrawnSinceClear : next_y_position >= c.y + c.h
        /\ \A i \in 1..Len(shape_list) :
               next_y_position >= shape_list[i].y + shape_height(shape_list[i])

(* C16: next_y decreases only in the step of clear_canvas that resets the  *)
(* position tracking, and that step sets next_y and last_x to (100, 100).  *)
C16_CursorNeverDecreases ==
    [][/\ next_y_position' < next_y_position
           => \E t \in TaskIds : task[t].pc = "clear_sent"
       /\ (\E t \in TaskIds : task[t].pc = "clear_sent" /\ task'[t] # task[t])
           => next_y_position' = 100 /\ last_x_position' = 100]_vars

(* The commands one call has sent. *)
CommandsOf(call_id) == SelectSeq(canvas_commands, LAMBDA c : c.call_id = call_id)

Margins == {0, 20, 30}

(* C17: when draw_on_canvas has placed its one item at (x, y) with line    *)
(* height h and assigns the cursor, and when draw_shape places a rectangle *)
(* at (x, y) with height h, then last_x = x and, for a margin,             *)
(* next_y = max(previous next_y, y + h + margin).                          *)
C17_ReservePosition ==
    [][/\ \A t \in TaskIds :
            (/\ task[t].pc = "draw_item_sent"
             /\ task[t].items = <<>>
             /\ task'[t] # task[t]
             /\ Len(CommandsOf(task[t].call_id)) = 1)
            => LET c == CommandsOf(task[t].call_id)[1]
               IN  /\ last_x_position' = c.x
                   /\ \E m \in Margins :
                        next_y_position' = Max(next_y_position, c.y + c.h + m)
       /\ (Places /\ Placed.kind = "shape" /\ Placed.w # Placed.h)
            => /\ last_x_position' = Placed.x
               /\ \E m \in Margins :
                    next_y_position' = Max(next_y_position, Placed.y + Placed.h + m)]_vars

(* C18 as stated: an element whose x or y was omitted is placed at exactly *)
(* last_x or next_y, for text items and shapes alike.                      *)
C18_OmittedVerbatim ==
    [][(Places /\ Placed.kind \in {"text", "shape"})
       => /\ Placed.given_x = {} => Placed.x = last_x_position
          /\ Placed.given_y = {} => Placed.y = next_y_position]_vars

(* C18: an element whose y was omitted is placed at next_y, for text items *)
(* and shapes alike; when x was omitted a text item is placed at last_x    *)
(* and a shape at last_x + 150.                                            *)
C18_OmittedCoordinates ==
    [][(Places /\ Placed.kind \in {"text", "shape"})
       => /\ Placed.given_x = {}
               => Placed.x = IF Placed.kind = "text"
                             THEN last_x_position
                             ELSE last_x_position + 150
          /\ Placed.given_y = {} => Placed.y = next_y_position]_vars

(* A text item and a shape have both been placed with x and y omitted. *)
C18_Witness ==
    /\ \E i \in 1..Len(canvas_commands) :
           /\ canvas_commands[i].kind = "text"
           /\ canvas_commands[i].given_x = {}
           /\ canvas_commands[i].given_y = {}
    /\ \E i \in 1..Len(canvas_commands) :
           /\ canvas_commands[i].kind = "shape"
           /\ canvas_commands[i].given_x = {}
           /\ canvas_commands[i].given_y = {}

(* The height estimates of the resync: text s/m/l = 30/50/70, geo = its h  *)
(* prop, freehand = 80, other = 50.                                        *)
EstimatedHeight(shape) ==
    IF shape.type = "text"
    THEN (IF shape.size = "s" THEN 30 ELSE IF shape.size = "l" THEN 70 ELSE 50)
    ELSE IF shape.type = "geo" THEN get(shape.h, 100)
    ELSE IF shape.type = "draw" THEN 80
    ELSE 50

(* M: the largest y + estimated height among the shapes. *)
MaxBottom(shapes) ==
    LET bottoms == {shapes[i].y + EstimatedHeight(shapes[i]) : i \in 1..Len(shapes)}
    IN  CHOOSE m \in bottoms : \A b \in bottoms : m >= b

(* A CANVAS_UPDATE is handled in this step. *)
CanvasUpdated == snapshots' = snapshots + 1 /\ latest_shapes' = snapshots + 1

ThreeTexts ==
    <<Shape("text", 100, "m", {}), Shape("text", 200, "m", {}),
      Shape("text", 140, "s", {})>>

(* C19 as stated: the resync sets next_y to max(next_y, M + 30). *)
C19_ResyncToMaxBottom ==
    [][(CanvasUpdated /\ shape_list' # <<>>)
       => next_y_position' = Max(next_y_position, MaxBottom(shape_list') + 30)]_vars

(* C19: the resync on a non-empty snapshot sets next_y to                  *)
(* max(next_y, max(100, M) + 30) and an empty snapshot leaves next_y as it *)
(* is; three texts at y=100 (50), y=200 (50) and y=140 (30) with the       *)
(* cursor at its origin give 250 + 30.                                     *)
C19_ResyncWithFloor ==
    [][CanvasUpdated
       => /\ next_y_position' =
                IF shape_list' = <<>>
                THEN next_y_position
                ELSE Max(next_y_position, Max(100, MaxBottom(shape_list')) + 30)
          /\ (shape_list' = ThreeTexts /\ next_y_position = 100)
                => next_y_position' = 250 + 30]_vars

(* A snapshot whose only shape ends above y = 100 has moved the cursor     *)
(* from its origin to 100 + 30.                                            *)
C19_Witness ==
    /\ shape_list = <<Shape("text", 0, "m", {})>>
    /\ next_y_position = 130
    /\ canvas_commands = <<>>

(* C20: the ellipse of circle_answer surrounds, with its padding of        *)
(* (30, 20), the point canvas = point + origin - padding shifted left by   *)
(* half the region width when there are bounds, and point - (50, 30) when  *)
(* there are none; origin (50, 80), padding 10 and point (20, 30) give     *)
(* (60, 100) before the shift.  The step changes neither the position      *)
(* tracking nor the bounds, the snapshot or the analysis state.            *)
C20_VisionToCanvas ==
    [][(Places /\ Placed.kind = "ellipse")
       => LET args == dispatched'[Len(dispatched')].args
              px == get(args.x, 100)
              py == get(args.y, 100)
              width == get(args.width, 100)
              b == screenshot_bounds
              canvas == <<Placed.x + 30, Placed.y + 20>>
          IN  /\ dispatched'[Len(dispatched')].call_id = Placed.call_id
              /\ IF b.known
                 THEN canvas = <<px + b.x - b.padding - width \div 2,
                                 py + b.y - b.padding>>
                 ELSE canvas = <<px - 50, py - 30>>
              /\ (b = Bounds(50, 80, 10) /\ px = 20 /\ py = 30)
                    => canvas = <<60 - width \div 2, 100>>
              /\ UNCHANGED <<next_y_position, last_x_position, bounds_vars,
                             analysis_vars, snapshot_vars>>]_vars

(* The answer at (20, 30), 80 wide, has been circled under the bounds with *)
(* origin (50, 80) and padding 10.                                         *)
C20_Witness ==
    \E i \in 1..Len(canvas_commands) :
        /\ canvas_commands[i].kind = "ellipse"
        /\ canvas_commands[i].x = 60 - 40 - 30
        /\ canvas_commands[i].y = 100 - 20

----------------------------------------------------------------------------
(* Properties of the dispatch, of its results and of the teardown *)

(* A request is dequeued in this step. *)
Dispatches == Len(dispatched') = Len(dispatched) + 1
Dispatched == dispatched'[Len(dispatched')]

ResultsFor(rs, call_id) == {i \in 1..Len(rs) : rs[i].call_id = call_id}

(* The handler of this call is left in this step, by return or exception. *)
HandlerEnds(call_id) ==
    \/ \E t \in TaskIds : /\ task[t].call_id = call_id
                          /\ task'[t].pc = "loop"
    \/ /\ Dispatches
       /\ Dispatched.call_id = call_id
       /\ Dispatched.name \in KnownTools
       /\ task'[Dispatched.task].pc = "loop"

C24_UnknownToolSkipped ==
    [][(Dispatches /\ Dispatched.name \notin KnownTools)
       => /\ task'[Dispatched.task].pc = "loop"
          /\ UNCHANGED <<results, canvas_commands, next_y_position,
                         last_x_position, analysis_vars, vision_in_flight,
                         outcomes, raised>>]_vars

(* An unknown tool was dequeued first and the known one after it answered. *)
C24_Witness ==
    /\ Len(dispatched) = 2
    /\ dispatched[1].name \notin KnownTools
    /\ Len(results) = 1
    /\ results[1].call_id = dispatched[2].call_id

(* C25: once the teardown has run no request is dequeued and no message is *)
(* sent to the client.                                                     *)
C25_NoDispatchAfterTeardown ==
    [][endpoint = "closed"
       => dispatched' = dispatched /\ canvas_commands' = canvas_commands]_vars

(* C26: once the upstream connection has closed or a handler's send has    *)
(* failed, the session is torn down.                                       *)
C26_TransportFailureTearsDown ==
    (~grok_connected \/ raised # {}) ~> (endpoint = "closed")

----------------------------------------------------------------------------
(* Properties of clear_canvas followed by a drawing call, and of the       *)
(* vertical offset stated in a drawing result                              *)

LastDispatched == dispatched[Len(dispatched)]

(* draw_on_canvas is dequeued in this step, and the request dequeued       *)
(* before it was a clear_canvas whose handler did not raise.               *)
DrawFollowsClear ==
    /\ Dispatches
    /\ Dispatched.name = "draw_on_canvas"
    /\ dispatched # <<>>
    /\ LastDispatched.name = "clear_canvas"
    /\ LastDispatched.call_id \notin raised

(* The clear-canvas command and the tool result of this call have been     *)
(* sent and no task is inside its handler.                                 *)
ClearCompleted(call_id) ==
    /\ \E i \in 1..Len(canvas_commands) :
           /\ canvas_commands[i].kind = "clear"
           /\ canvas_commands[i].call_id = call_id
    /\ ResultsFor(results, call_id) # {}
    /\ \A t \in TaskIds : task[t].call_id # call_id

(* The clear_canvas dequeued last has reset the position tracking, and no  *)
(* request has been dequeued since.                                        *)
ResetByLastDispatched ==
    /\ dispatched # <<>>
    /\ LastDispatched.name = "clear_canvas"
    /\ LastDispatched.call_id \notin raised
    /\ \A t \in TaskIds :
           task[t].call_id = LastDispatched.call_id => task[t].pc = "status_sent"

(* C21 as stated: when the handler of a draw_on_canvas enqueued after a    *)
(* clear_canvas starts, the clear handler has completed and the cursor is  *)
(* at its origin (100, 100).                                               *)
C21_DrawStartsAtOrigin ==
    [][DrawFollowsClear
       => /\ ClearCompleted(LastDispatched.call_id)
          /\ next_y_position = 100
          /\ last_x_position = 100]_vars

(* C21: when the handler of a draw_on_canvas enqueued after a clear_canvas *)
(* starts, the clear handler has completed (command sent, cursor reset,    *)
(* result sent), last_x is 100, and next_y is 100 unless a CANVAS_UPDATE   *)
(* with shapes was handled between the reset and that start: the reset     *)
(* sets the cursor to (100, 100), and from the reset to the start of the   *)
(* next handler the cursor changes only in a CANVAS_UPDATE with shapes,    *)
(* which keeps last_x and does not lower next_y.  The clear-canvas command *)
(* precedes every text command of a later call.                            *)
C21_ClearCompletesBeforeDraw ==
    /\ [][DrawFollowsClear
          => /\ ClearCompleted(LastDispatched.call_id)
             /\ last_x_position = 100
             /\ next_y_position >= 100
             /\ (latest_shapes = 0 => next_y_position = 100)]_vars
    /\ [][\A t \in TaskIds :
            (task[t].pc = "clear_sent" /\ task'[t] # task[t])
            => next_y_position' = 100 /\ last_x_position' = 100]_vars
    /\ [][(ResetByLastDispatched /\ ~Dispatches)
          => \/ UNCHANGED <<next_y_position, last_x_position>>
             \/ /\ snapshots' = snapshots + 1
                /\ shape_list' # <<>>
                /\ last_x_position' = last_x_position
                /\ next_y_position' >= next_y_position]_vars
    /\ [](\A i, j \in 1..Len(canvas_commands) :
              (/\ canvas_commands[i].kind = "clear"
               /\ canvas_commands[j].kind = "text"
               /\ canvas_commands[j].call_id > canvas_commands[i].call_id)
              => i < j)

(* clear_canvas, then draw_on_canvas: the clear command precedes the text, *)
(* which was placed at the cursor below the origin after a CANVAS_UPDATE.  *)
C21_Witness ==
    /\ Len(dispatched) = 2
    /\ dispatched[1].name = "clear_canvas"
    /\ dispatched[2].name = "draw_on_canvas"
    /\ Len(canvas_commands) >= 2
    /\ canvas_commands[1].kind = "clear"
    /\ canvas_commands[2].kind = "text"
    /\ canvas_commands[2].given_y = {}
    /\ canvas_commands[2].y > 100
    /\ canvas_commands[2].x = 100

(* C22: the result of a clear_canvas sent while the drawing call of the    *)
(* same batch is in the queue carries no reply request.                    *)
C22_ClearResultWithoutReply ==
    [][(/\ Len(results') = Len(results) + 1
        /\ RequestOf(results'[Len(results')].call_id).name = "clear_canvas"
        /\ function_queue # <<>>
        /\ Head(function_queue).name = "draw_on_canvas")
       => ~results'[Len(results')].request_response]_vars

DrawingTools == {"draw_on_canvas", "draw_shape"}

(* C28: the result of a draw_on_canvas or draw_shape call states the value *)
(* of next_y at the moment it is sent, and from the call's own assignment  *)
(* of next_y until then next_y does not decrease.                          *)
C28_ResultStatesNextY ==
    /\ [][\A t \in TaskIds :
            (/\ task[t].call_id # 0
             /\ RequestOf(task[t].call_id).name \in DrawingTools
             /\ Len(results') = Len(results) + 1
             /\ results'[Len(results')].call_id = task[t].call_id)
            => results'[Len(results')].next_y = {next_y_position}]_vars
    /\ [][\A t \in TaskIds :
            (/\ task[t].call_id # 0
             /\ RequestOf(task[t].call_id).name \in DrawingTools
             /\ task[t].pc \in {"command_sent", "status_sent"})
            => next_y_position' >= next_y_position]_vars

(* A circle drawn at the origin moved next_y to 220; a snapshot of three   *)
(* texts arrived before its result was sent, which states 280.             *)
C28_Witness ==
    /\ Len(results) >= 1
    /\ RequestOf(results[1].call_id).name = "draw_shape"
    /\ results[1].next_y = {280}
    /\ canvas_commands # <<>>
    /\ canvas_commands[1].kind = "shape"
    /\ canvas_commands[1].y = 100

----------------------------------------------------------------------------
(* Properties of tool calls with malformed arguments *)

(* The display command of this tool built from the defaults, with no       *)
(* screenshot bounds known.                                                *)
BuiltFromDefaults(name, c) ==
    CASE name = "point_to" -> c.kind = "attention" /\ c.x = 400 /\ c.y = 300
      [] name = "draw_shape" ->
            c.kind = "shape" /\ c.style = "rectangle" /\ c.w = 100 /\ c.h = 100
      [] name = "circle_answer" ->
            /\ c.kind = "ellipse" /\ c.style = "light-green"
            /\ c.x = 100 - 50 - 30 /\ c.y = 100 - 30 - 20
            /\ c.w = 120 + 60 /\ c.h = 50 + 40
      [] name = "celebrate" -> c.kind = "celebrate" /\ c.style = "big"
      [] OTHER -> TRUE

(* C27: when the handler of a tool call with malformed arguments is left,  *)
(* the display command built from the defaults and the tool result of the  *)
(* call have been sent.                                                    *)
C27_MalformedArgsUseDefaults ==
    [][\A call_id \in CallIds :
          HandlerEnds(call_id)
          => /\ \E i \in 1..Len(canvas_commands') :
                    /\ canvas_commands'[i].call_id = call_id
                    /\ BuiltFromDefaults(dispatched'[CHOOSE k \in 1..Len(dispatched') :
                                             dispatched'[k].call_id = call_id].name,
                                         canvas_commands'[i])
             /\ ResultsFor(results', call_id) # {}]_vars

----------------------------------------------------------------------------
(* Properties of two sessions and of the voice state *)

(* C29: a step of the second session changes neither the layout cursor nor *)
(* the analysis state nor the tool-call queue of the first session, and a  *)
(* step of the first session changes none of these of the second.          *)
C29_SessionsIndependent ==
    [][/\ peer'.steps # peer.steps => attributes(1)' = attributes(1)
       /\ peer'.steps = peer.steps => peer'.attributes = peer.attributes]_vars

(* The first session drew a shape and emptied its queue; the second moved  *)
(* its cursor by a canvas snapshot and holds a request in its queue.       *)
C29_Witness ==
    /\ next_y_position = 220
    /\ function_queue = <<>>
    /\ results # <<>>
    /\ peer.attributes.next_y_position = 280
    /\ peer.attributes.function_queue # <<>>

VoiceSuccessor ==
    {<<"idle", "listening">>, <<"listening", "processing">>,
     <<"processing", "speaking">>, <<"speaking", "idle">>}

(* C30: a VOICE_STATE message that changes the state shown to the client   *)
(* carries the successor, in idle -> listening -> processing -> speaking   *)
(* -> idle, of the state sent before it.                                   *)
C30_VoiceStateCycle ==
    [][(voice_state_sent' # voice_state_sent /\ voice_state_sent # "none")
       => <<voice_state_sent, voice_state_sent'>> \in VoiceSuccessor]_vars

----------------------------------------------------------------------------
(* Properties of a batch: the flag is_last and the reply request *)

HandlerPcs ==
    {"celebrate_sent", "check_cleared", "check_status_sent", "check_vision"}

(* C31: the is_last flag passed to a handler is true exactly when the      *)
(* queue was empty right after its request was dequeued.  A request        *)
(* enqueued later, while the handler is suspended, changes neither the     *)
(* flag the handler holds nor the one its result is sent with, starts no   *)
(* new loop, and is dequeued by the loop that is running.                  *)
C31_IsLastAtDequeue ==
    /\ [][/\ Dispatches =>
               /\ Dispatched.is_last = (function_queue' = <<>>)
               /\ Dispatched.task = function_processor_task
          /\ \A t \in TaskIds :
                 (task[t].pc \in HandlerPcs /\ task'[t].pc \in HandlerPcs)
                     => /\ task'[t].call_id = task[t].call_id
                        /\ task'[t].is_last = task[t].is_last
                        /\ task[t].is_last = RequestOf(task[t].call_id).is_last
          /\ (next_call' # next_call /\ ActiveTasks # {})
                 => /\ function_processor_task' = function_processor_task
                    /\ \A t \in ActiveTasks : task'[t] = task[t]]_vars
    /\ [](\A i \in 1..Len(results) :
              results[i].request_response = RequestOf(results[i].call_id).is_last)

(* The first call was dequeued from a queue it left empty and answered     *)
(* with a reply request; the second, enqueued while that handler was       *)
(* suspended, was dequeued by the same loop.                               *)
C31_Witness ==
    /\ Len(dispatched) >= 2
    /\ dispatched[1].is_last
    /\ dispatched[2].task = dispatched[1].task
    /\ \E i \in 1..Len(results) :
           results[i].call_id = 1 /\ results[i].request_response

(* C32: every batch ends with a reply request: when a drain loop that has  *)
(* dequeued a request goes idle, with both connections still open, a       *)
(* response.create has been sent upstream by that loop, whatever its last  *)
(* request was.                                                            *)
C32_BatchEndsWithReplyRequest ==
    [][\A t \in TaskIds :
           (/\ task[t].pc = "loop"
            /\ task'[t].pc = "done"
            /\ BatchIndices(t) # {}
            /\ grok_connected
            /\ ws_open)
               => ReplyRequests(t) # {}]_vars

(* C33: a check_canvas handler takes the Busy branch only if an earlier    *)
(* check_canvas handler raised after it had set the flag; it never finds   *)
(* the flag set by a handler that is still running, since no other handler *)
(* runs while it does.                                                     *)
C33_BusyOnlyAfterAbnormalEnd ==
    [][(/\ Len(outcomes') = Len(outcomes) + 1
        /\ outcomes'[Len(outcomes')].kind = "Busy")
           => /\ \E c \in raised :
                     /\ c < outcomes'[Len(outcomes')].call_id
                     /\ RequestOf(c).name = "check_canvas"
              /\ \A t \in TaskIds : task[t].pc \notin CheckPcs]_vars

(* Two check_canvas calls of one batch, the second waiting in the queue    *)
(* while the first was analysed, both answered and neither with Busy; no   *)
(* handler has raised.                                                     *)
C33_Witness ==
    /\ raised = {}
    /\ Len(outcomes) = 2
    /\ \A i \in 1..2 : outcomes[i].kind # "Busy"
    /\ Len(dispatched) = 2
    /\ ~dispatched[1].is_last
    /\ dispatched[2].task = dispatched[1].task
    /\ outcomes[1].kind = "Fresh"

----------------------------------------------------------------------------
(* Frame properties of the handlers *)

(* The handler of a call of this tool takes a step: its request is         *)
(* dequeued, or it resumes after an await.                                 *)
Handles(name) ==
    \/ Dispatches /\ Dispatched.name = name
    \/ \E t \in DOMAIN task : /\ task'[t] # task[t]
                          /\ task[t].pc \notin {"unborn", "loop", "done"}
                          /\ RequestOf(task[t].call_id).name = name

(* C34: no step of a clear_canvas handler changes the analysis state or    *)
(* the stored snapshot; a check_canvas dequeued right after a clear_canvas *)
(* while the cached result is still valid (within the cooldown, no         *)
(* screenshot received since) is answered Cached with that result, which   *)
(* an analysis before the clear computed.                                  *)
C34_ClearKeepsAnalysisState ==
    /\ [][Handles("clear_canvas") =>
              UNCHANGED <<analysis_vars, latest_screenshot, latest_shapes,
                          screenshot_source, screenshot_bounds, shape_list>>]_vars
    /\ [][(/\ Dispatches
           /\ Dispatched.name = "check_canvas"
           /\ Len(dispatched) >= 1
           /\ LastDispatched.name = "clear_canvas"
           /\ ~vision_in_progress
           /\ now - last_check_canvas_time < check_canvas_cooldown
           /\ last_check_canvas_result # NoText)
              => /\ outcomes' = Append(outcomes,
                        Outcome(Dispatched.call_id, "Cached",
                                last_check_canvas_result))
                 /\ UNCHANGED analysis_vars]_vars
    /\ [](\A i \in 1..Len(outcomes) :
              outcomes[i].kind = "Cached"
                  => \E j \in 1..(i - 1) :
                         /\ outcomes[j].kind = "Fresh"
                         /\ outcomes[j].text = outcomes[i].text)

(* An analysis of the first snapshot, then a clear_canvas that completed,  *)
(* then a check_canvas answered from the cache with the text the first     *)
(* analysis computed.                                                      *)
C34_Witness ==
    /\ Len(dispatched) = 3
    /\ dispatched[1].name = "check_canvas"
    /\ dispatched[2].name = "clear_canvas"
    /\ dispatched[3].name = "check_canvas"
    /\ \E i \in 1..Len(results) : results[i].call_id = 2
    /\ Len(outcomes) = 2
    /\ outcomes[1].kind = "Fresh"
    /\ outcomes[1].text = VisionText(1)
    /\ outcomes[2].kind = "Cached"
    /\ outcomes[2].call_id = 3
    /\ outcomes[2].text = outcomes[1].text

(* C35: no step of a point_to, celebrate, circle_answer or check_canvas    *)
(* handler changes next_y or last_x; a step that changes either is a step  *)
(* of a draw_on_canvas, draw_shape or clear_canvas handler or the handling *)
(* of a canvas snapshot, and a snapshot leaves last_x as it was.           *)
C35_CursorFrame ==
    /\ [][\A name \in {"point_to", "celebrate", "circle_answer", "check_canvas"} :
              Handles(name) => UNCHANGED <<next_y_position, last_x_position>>]_vars
    /\ [][<<next_y_position, last_x_position>>' # <<next_y_position, last_x_position>>
              => \/ \E name \in {"draw_on_canvas", "draw_shape", "clear_canvas"} :
                        Handles(name)
                 \/ snapshots' = snapshots + 1 /\ task' = task]_vars
    /\ [][snapshots' # snapshots => last_x_position' = last_x_position]_vars

(* A draw_shape moved the cursor, a point_to was then handled to its end   *)
(* and a snapshot then moved next_y further; last_x is where the           *)
(* draw_shape left it.                                                     *)
C35_Witness ==
    /\ Len(dispatched) = 2
    /\ dispatched[1].name = "draw_shape"
    /\ dispatched[2].name = "point_to"
    /\ \E i \in 1..Len(results) : results[i].call_id = 2
    /\ \E i \in 1..Len(canvas_commands) : canvas_commands[i].kind = "attention"
    /\ snapshots = 1
    /\ shape_list # <<>>
    /\ next_y_position = max_bottom(shape_list, 100) + 30
    /\ last_x_position # 100

----------------------------------------------------------------------------
(* The attention marker *)

(* A clear-attention command is sent downstream in this step. *)
ClearAttentionSent ==
    /\ Len(canvas_commands') = Len(canvas_commands) + 1
    /\ canvas_commands'[Len(canvas_commands')].kind = "clear_attention"

(* C36: no clear-attention command is sent downstream less than 3 seconds  *)
(* after the most recent attention marker was sent.                        *)
C36_MarkerShownThreeSeconds ==
    [][ClearAttentionSent => now - attention.shown_at >= clear_delay]_vars

----------------------------------------------------------------------------
(* The connection to the upstream API *)

(* C37: connect_to_grok eventually returns or raises, whatever the         *)
(* upstream connection does.                                               *)
C37_ConnectTerminates == <>(endpoint \notin {"accepted", "polling"})

(* The greeting messages sent upstream so far, in the order sent. *)
GreetingsSent ==
    SelectSeq(grok_client.sent,
              LAMBDA m : \E k \in 1..Len(Greeting) : m = Greeting[k])

(* The messages of n greetings. *)
RECURSIVE Greetings(_)
Greetings(n) == IF n = 0 THEN <<>> ELSE Greetings(n - 1) \o Greeting

(* A message of this type is sent upstream in this step. *)
Sends(type) ==
    /\ Len(grok_client'.sent) = Len(grok_client.sent) + 1
    /\ grok_client'.sent[Len(grok_client'.sent)] = type

(* SESSION_READY is sent downstream in this step. *)
SessionReadySent == endpoint # "serving" /\ endpoint' = "serving"

(* Audio is forwarded and SESSION_READY is sent only once a session.updated *)
(* has been handled; session.update is sent by the handling of             *)
(* conversation.created and by nothing else; the session becomes           *)
(* configured in the handling of session.updated and in no other step.     *)
ConfiguredBeforeUse ==
    /\ [][(Sends("input_audio_buffer.append") \/ SessionReadySent)
              => /\ grok_client.session_configured
                 /\ grok_client.session_updates >= 1]_vars
    /\ [][Sends("session.update")
              <=> grok_client'.conversations = grok_client.conversations + 1]_vars
    /\ [][(grok_client'.session_configured /\ ~grok_client.session_configured)
              => grok_client'.session_updates = grok_client.session_updates + 1]_vars

----------------------------------------------------------------------------
(* Function calls streamed by the upstream service *)

(* The function_call item of upstream call c: its name. *)
NameOf(c) ==
    CASE c = 1 -> "check_canvas"
      [] c = 2 -> "point_to"
      [] OTHER -> "celebrate"

(* The arguments the service gives to upstream call c. *)
ArgsOf(c) ==
    IF NameOf(c) = "point_to"
    THEN Args(<<>>, {}, {250}, {180}, {}, {})
    ELSE NoArgs

(* The k-th piece of the argument text of upstream call c. *)
Delta(c, k) == [call |-> c, part |-> k]

(* The whole argument text of upstream call c, a JSON object. *)
ArgumentText(c) == [k \in 1..MaxDeltas |-> Delta(c, k)]

(* json.loads raises JSONDecodeError unless the text is one whole JSON     *)
(* document; the empty text is not parsed at all (line 449).               *)
json_loads_raises(text) ==
    /\ text # <<>>
    /\ \A c \in CallIds : text # ArgumentText(c)

(* 'json.loads(self._function_call_args) if self._function_call_args else  *)
(* {}' for a text that parses.                                             *)
json_loads(text) ==
    IF text = <<>>
    THEN NoArgs
    ELSE ArgsOf(CHOOSE c \in CallIds : text = ArgumentText(c))

(* response.created, lines 404-409: the function-call state is reset and   *)
(* on_response_started creates the voice-state task.  The service opens a  *)
(* response only when the calls of the previous one are complete.          *)
response_created ==
    /\ grok_client.receive_loop = "waiting"
    /\ \A c \in CallIds :
           grok_client.calls[c].announced => grok_client.calls[c].done
    /\ create_task_send_voice_state("speaking")
    /\ grok_client' = [grok_client EXCEPT !.current_function_call = {},
                                          !.function_call_args = <<>>]

(* response.output_item.added with a function_call item, lines 429-438:    *)
(* the one slot takes the call_id and the name of the item, and the        *)
(* accumulated text is dropped.  The service announces call c once.        *)
output_item_added(c) ==
    /\ grok_client.receive_loop = "waiting"
    /\ ~grok_client.calls[c].announced
    /\ receive_loop_step(
           [grok_client EXCEPT
                !.current_function_call =
                    {[call_id |-> c, name |-> NameOf(c)]},
                !.function_call_args = <<>>,
                !.calls[c].announced = TRUE])

(* response.function_call_arguments.delta, lines 440-443: the piece is     *)
(* appended to the accumulated text, whichever item it belongs to.         *)
function_call_arguments_delta(c) ==
    /\ grok_client.receive_loop = "waiting"
    /\ grok_client.calls[c].announced
    /\ ~grok_client.calls[c].done
    /\ grok_client.calls[c].deltas < MaxDeltas
    /\ receive_loop_step(
           [grok_client EXCEPT
                !.function_call_args =
                    Append(@, Delta(c, grok_client.calls[c].deltas + 1)),
                !.calls[c].deltas = @ + 1])

(* The upstream client after the handler of                                *)
(* response.function_call_arguments.done for call c, given whether the     *)
(* call in the slot was handed to on_function_call: lines 445-464, with    *)
(* cancel_response (282-288) for check_canvas.                             *)
arguments_done(c, handed) ==
    LET call == CHOOSE f \in grok_client.current_function_call : TRUE
        cancelled == IF handed /\ call.name = "check_canvas"
                     THEN ws_send(grok_client, "response.cancel")
                     ELSE grok_client
    IN  [cancelled EXCEPT
            !.delivered =
                IF handed
                THEN Append(@, [call_id |-> call.call_id,
                                name |-> call.name,
                                text |-> grok_client.function_call_args])
                ELSE @,
            !.current_function_call = {},
            !.function_call_args = <<>>,
            !.calls[c].done = TRUE]

(* response.function_call_arguments.done, lines 445-464.  The service      *)
(* sends it for call c after the last piece of its arguments.  With a call *)
(* in the slot and a text that parses, the call of the slot is handed to   *)
(* _on_function_call with the parsed text; in every case the slot and the  *)
(* text are reset.                                                         *)
function_call_arguments_done(c) ==
    /\ grok_client.receive_loop = "waiting"
    /\ grok_client.calls[c].announced
    /\ ~grok_client.calls[c].done
    /\ grok_client.calls[c].deltas = MaxDeltas
    /\ IF /\ grok_client.current_function_call # {}
          /\ ~json_loads_raises(grok_client.function_call_args)
       THEN /\ function_queue_put(
                   MaxCalls,
                   (CHOOSE f \in grok_client.current_function_call : TRUE).name,
                   json_loads(grok_client.function_call_args))
            /\ grok_client' = arguments_done(c, TRUE)
       ELSE receive_loop_step(arguments_done(c, FALSE))

(* The upstream service streams the function calls of its responses; the   *)
(* pieces of two calls of one response may arrive interleaved.             *)
FunctionCallNext ==
    \/ response_created
    \/ \E c \in CallIds : output_item_added(c)
    \/ \E c \in CallIds : function_call_arguments_delta(c)
    \/ \E c \in CallIds : function_call_arguments_done(c)
    \/ send_voice_state_task

FunctionCallSpec == Init /\ [][FunctionCallNext]_vars

(* The deliveries made in the name of upstream call c. *)
DeliveriesOf(c) ==
    {i \in 1..Len(grok_client.delivered) : grok_client.delivered[i].call_id = c}

(* C39: every upstream function call whose arguments are complete has     *)
(* been delivered to the sequencer exactly once, under the call_id and    *)
(* the name of its own function_call item and with its own argument text  *)
(* only; and nothing is delivered under the id of a call whose arguments  *)
(* are not complete.                                                      *)
C39_CallDeliveredOnceWithOwnArguments ==
    /\ \A c \in CallIds :
           grok_client.calls[c].done =>
               /\ Cardinality(DeliveriesOf(c)) = 1
               /\ \A i \in DeliveriesOf(c) :
                      /\ grok_client.delivered[i].name = NameOf(c)
                      /\ grok_client.delivered[i].text = ArgumentText(c)
    /\ \A i \in 1..Len(grok_client.delivered) :
           grok_client.calls[grok_client.delivered[i].call_id].done

====
